---------------------------- MODULE Spec2Model ----------------------------
(***************************************************************************)
(* A model of the key-value store's durability core: the WAL record codec  *)
(* (wal/entry.rs), the WAL manager (wal/manager.rs), the sharded storage   *)
(* engine with its TTL scheduler (storage/*.rs), the snapshot manager      *)
(* (storage/snapshot.rs), the REST mutation handlers                       *)
(* (api/rest/handler.rs) and start-up (main.rs).                           *)
(*                                                                         *)
(* A u64 that crosses the codec is held as its eight base-256 digits,      *)
(* least significant first, so that its full width is kept.  Times inside  *)
(* the engine are nanoseconds since the epoch, as plain naturals.          *)
(***************************************************************************)
EXTENDS Integers, Sequences, FiniteSets, Bags, TLC

(***************************************************************************)
(* Bytes and fixed-width integers                                          *)
(***************************************************************************)
Byte == 0..255

Reverse(s) == [i \in 1..Len(s) |-> s[Len(s) + 1 - i]]

SubBytes(s, from, to) == [i \in 1..(to - from) |-> s[from + i]]

RECURSIVE ToDigits(_, _)
ToDigits(n, w) == IF w = 0 THEN <<>> ELSE <<n % 256>> \o ToDigits(n \div 256, w - 1)

\* A small natural as a u64 / u32.
U64(n) == ToDigits(n, 8)
U32(n) == ToDigits(n, 4)

\* A u64 below 2^16, where ordinary arithmetic on it is exact.
IsSmall(u) == \A i \in 3..Len(u) : u[i] = 0
AsNat(u) == u[1] + 256 * u[2]

\* u64 addition with its overflow flag (u64::overflowing_add).
RECURSIVE AddDigits(_, _, _, _)
AddDigits(a, b, i, carry) ==
    IF i > Len(a) THEN [sum |-> <<>>, overflow |-> carry = 1]
    ELSE LET t == a[i] + b[i] + carry
             rest == AddDigits(a, b, i + 1, t \div 256)
         IN  [sum |-> <<t % 256>> \o rest.sum, overflow |-> rest.overflow]

U64Add(a, b) == AddDigits(a, b, 1, 0)

\* a < b on u64 digits.
RECURSIVE LessFrom(_, _, _)
LessFrom(a, b, i) ==
    IF i = 0 THEN FALSE
    ELSE IF a[i] # b[i] THEN a[i] < b[i]
    ELSE LessFrom(a, b, i - 1)

U64Less(a, b) == LessFrom(a, b, Len(a))

\* Bitwise exclusive-or of two bytes.
RECURSIVE XorBits(_, _, _)
XorBits(a, b, n) ==
    IF n = 0 THEN 0
    ELSE ((a + b) % 2) + 2 * XorBits(a \div 2, b \div 2, n - 1)

XorByte(a, b) == XorBits(a, b, 8)

Xor32(a, b) == <<XorByte(a[1], b[1]), XorByte(a[2], b[2]), XorByte(a[3], b[3]), XorByte(a[4], b[4])>>

\* A 32-bit word (four digits, least significant first) shifted right.
Shr1(w) ==
    <<(w[1] \div 2) + (w[2] % 2) * 128, (w[2] \div 2) + (w[3] % 2) * 128,
      (w[3] \div 2) + (w[4] % 2) * 128, w[4] \div 2>>
Shr8(w) == <<w[2], w[3], w[4], 0>>

(***************************************************************************)
(* crc32fast::Hasher: CRC-32 (IEEE), reflected polynomial 0xEDB88320,      *)
(* initial value and final xor 0xFFFFFFFF.                                 *)
(***************************************************************************)
CrcPoly == <<32, 131, 184, 237>>
CrcOnes == <<255, 255, 255, 255>>

RECURSIVE CrcBits(_, _)
CrcBits(w, n) ==
    IF n = 0 THEN w
    ELSE CrcBits(IF w[1] % 2 = 1 THEN Xor32(Shr1(w), CrcPoly) ELSE Shr1(w), n - 1)

\* The table of byte b is CrcTable[b + 1].
CrcTable == [i \in 1..256 |-> CrcBits(<<i - 1, 0, 0, 0>>, 8)] \o <<>>

\* Hasher::update: one table step per byte.  The running value is passed as a
\* function argument so that every step is evaluated before the next one.
Word32 == Byte \X Byte \X Byte \X Byte

CrcUpdate(crc0, data) ==
    LET step[p \in (1..(Len(data) + 1)) \X Word32] ==
            IF p[1] > Len(data) THEN p[2]
            ELSE step[<<p[1] + 1,
                        Xor32(CrcTable[XorByte(p[2][1], data[p[1]]) + 1], Shr8(p[2]))>>]
    IN  step[<<1, crc0>>]

\* Hasher::new(); update(data); finalize()
Crc32(data) == Xor32(CrcUpdate(CrcOnes, data), CrcOnes)


(***************************************************************************)
(* Option<T>: None is the empty sequence, Some(x) a sequence of one.       *)
(***************************************************************************)
None == <<>>
Some(x) == <<x>>
IsSome(o) == Len(o) = 1
Unwrap(o) == o[1]

(***************************************************************************)
(* wal/entry.rs: OpType and WalEntry                                       *)
(***************************************************************************)
OpTypes == {"Set", "Del", "Incr", "Cas"}

\* OpType::as_u8
as_u8(op) == CASE op = "Set" -> 0 [] op = "Del" -> 1 [] op = "Incr" -> 2 [] op = "Cas" -> 3

\* OpType::from_u8
from_u8(v) ==
    CASE v = 0 -> Some("Set") [] v = 1 -> Some("Del") [] v = 2 -> Some("Incr")
      [] v = 3 -> Some("Cas") [] OTHER -> None

\* struct WalEntry; timestamp, version and the ttl are u64 digits.
WalEntry(ts, k, v, ver, ttl, op) ==
    [timestamp |-> ts, key |-> k, value |-> v, version |-> ver, ttl |-> ttl, op_type |-> op]

\* bytes::BufMut::put_u64 and put_u32 write big-endian.
put_u64(v) == Reverse(v)
put_u32(v) == Reverse(v)

\* u64::from_le_bytes, u32::from_le_bytes: the bytes are the digits.
from_le_bytes(bytes) == bytes

\* WalEntry::serialize
serialize(e) ==
    LET body == put_u64(e.timestamp)
                \o put_u64(e.version)
                \o put_u64(IF IsSome(e.ttl) THEN Unwrap(e.ttl) ELSE U64(0))
                \o <<as_u8(e.op_type)>>
                \o put_u64(U64(Len(e.key)))
                \o put_u64(U64(Len(e.value)))
                \o e.key
                \o e.value
    IN  body \o put_u32(Crc32(body))

\* std::str::from_utf8 accepts exactly the well-formed UTF-8 sequences.
IsCont(b) == b \in 128..191

RECURSIVE Utf8From(_, _)
Utf8From(s, i) ==
    IF i > Len(s) THEN TRUE
    ELSE LET b == s[i]
             has(n) == i + n <= Len(s)
         IN  CASE b < 128 -> Utf8From(s, i + 1)
               [] b \in 194..223 ->
                    has(1) /\ IsCont(s[i + 1]) /\ Utf8From(s, i + 2)
               [] b \in 224..239 ->
                    /\ has(2)
                    /\ s[i + 1] \in (IF b = 224 THEN 160..191
                                     ELSE IF b = 237 THEN 128..159 ELSE 128..191)
                    /\ IsCont(s[i + 2])
                    /\ Utf8From(s, i + 3)
               [] b \in 240..244 ->
                    /\ has(3)
                    /\ s[i + 1] \in (IF b = 240 THEN 144..191
                                     ELSE IF b = 244 THEN 128..143 ELSE 128..191)
                    /\ IsCont(s[i + 2])
                    /\ IsCont(s[i + 3])
                    /\ Utf8From(s, i + 4)
               [] OTHER -> FALSE

IsUtf8(s) == Utf8From(s, 1)

\* The results of WalEntry::deserialize.  A panic ends the process.
Ok(e, n) == [tag |-> "Ok", entry |-> e, consumed |-> n]
InvalidEntry(reason) == [tag |-> "InvalidEntry", reason |-> reason]
ChecksumMismatch == [tag |-> "ChecksumMismatch"]
Panic == [tag |-> "Panic"]

MinEntryLen == 37
HeaderLen == 41

\* WalEntry::deserialize, after the header has been read.  The length
\* arithmetic is on usize: with overflow checks (a debug build) an
\* overflowing addition panics, without them it wraps.
deserialize_body(data, checks) ==
    LET timestamp == from_le_bytes(SubBytes(data, 0, 8))
        version   == from_le_bytes(SubBytes(data, 8, 16))
        ttl_raw   == from_le_bytes(SubBytes(data, 16, 24))
        op_byte   == data[25]
        key_len   == from_le_bytes(SubBytes(data, 25, 33))
        value_len == from_le_bytes(SubBytes(data, 33, 41))
        len       == U64(Len(data))
        a1 == U64Add(U64(HeaderLen), key_len)
        a2 == U64Add(a1.sum, value_len)
        a3 == U64Add(a2.sum, U64(4))
        key_end == a1.sum
        val_end == a2.sum
    IN  IF checks /\ (a1.overflow \/ a2.overflow \/ a3.overflow) THEN Panic
        ELSE IF U64Less(len, a3.sum) THEN InvalidEntry("incomplete data")
        ELSE IF U64Less(key_end, U64(HeaderLen)) \/ U64Less(len, key_end) THEN Panic
        ELSE LET ke == AsNat(key_end)
                 key == SubBytes(data, HeaderLen, ke)
             IN  IF ~IsUtf8(key) THEN InvalidEntry("invalid UTF-8 key")
                 ELSE IF U64Less(val_end, key_end) \/ U64Less(len, val_end) THEN Panic
                 ELSE LET ve == AsNat(val_end)
                          value == SubBytes(data, ke, ve)
                      IN  IF ve + 4 > Len(data) THEN InvalidEntry("unexpected EOF")
                          ELSE LET checksum_stored == from_le_bytes(SubBytes(data, ve, ve + 4))
                                   checksum_computed == Crc32(SubBytes(data, 0, ve))
                                   ttl == IF ttl_raw = U64(0) THEN None ELSE Some(ttl_raw)
                                   op == from_u8(op_byte)
                               IN  IF checksum_stored # checksum_computed THEN ChecksumMismatch
                                   ELSE IF ~IsSome(op) THEN InvalidEntry("unknown op type")
                                   ELSE Ok(WalEntry(timestamp, key, value, version, ttl,
                                                    Unwrap(op)), ve + 4)

\* WalEntry::deserialize.  read_u64 at offset 33 fails on fewer than 41 bytes.
deserialize(data, checks) ==
    IF Len(data) < MinEntryLen THEN InvalidEntry("too short")
    ELSE IF Len(data) < HeaderLen THEN InvalidEntry("unexpected EOF")
    ELSE deserialize_body(data, checks)


(***************************************************************************)
(* State                                                                   *)
(***************************************************************************)
VARIABLES
    overflow_checks,  \* build profile: TRUE when integer overflow panics
    sync_policy,      \* WalConfig.sync_policy
    phase,            \* "serving" after main started, "crashed" after a crash
    restarts,         \* how many times main has started again
    \* WAL manager
    wal_dir,          \* the segment files, wal_dir[seq] = [data, synced]
    handle,           \* WalFileHandle of the manager: [seq, offset]
    appended,         \* history: the records append has returned Ok for
    append_calls,     \* history: how many times append was called
    replay_out,       \* history: outcome of replay_from on the files as they are, or None
    damage,           \* history: the byte altered in a segment file, or None
    torn,             \* history: the append that failed part-way, or None
    \* storage engine
    now,              \* SystemTime::now() in nanoseconds
    shards,           \* StorageEngine.shards[i].map
    ttl_queue,        \* TtlManager.queue, a bag of TtlEvents
    to_delete,        \* the sweeper's popped keys not yet deleted
    get_req,          \* a get between its shard read and its expiry check
    ops,              \* history: how many mutations the engine was asked for
    acked,            \* history: the last mutation reported successful to a client
    set_count,        \* history: sets of a key since it was last absent
    get_res,          \* history: what the last get returned
    applied,          \* history: the last record given to apply_wal_entry
    crash_img,        \* history: the shards at the moment of the last crash
    recovering,       \* history: TRUE from main's start until the next request
    mut_res,          \* history: what the last set or del did and returned
    load_res,         \* history: what the last load_snapshot loaded and returned
    \* snapshots
    snapshot_dir,     \* the files of SnapshotManager.snapshot_dir
    \* background workers
    checkpoint,       \* the checkpoint task's last snapshot and the WAL offset it read
    repl_conn,        \* handle_replica_connection's state, or None before the accept
    repl_wire,        \* the peer's side: bytes written and not yet read, frames sent, closed,
                      \* and as history all bytes written and where each frame ends
    \* one shard's lock and the threads calling the shard
    sh_lock,          \* the shard's RwLock: the writer holding it (0: none) and the readers
    sh_thread,        \* per thread: the shard method it is in, or Idle
    sh_res,           \* history: what the last read method returned
    \* background tasks
    task,             \* per task: "running", "stopped" or "not started", and its loop's parity
    signals,          \* the shutdown signals given so far: "shutdown", "drop"
    \* connection manager
    conn_cfg,         \* ConnectionManager.config, or None before new
    connections,      \* ConnectionManager.connections: id |-> ConnectionInfo
    conn_shard,       \* the map shard each tracked id hashes to
    conn_held,        \* the shards a reference that is never dropped points into
    accepts,          \* how many times accept was called; also the Instant of the last one
    accept_res,       \* history: what the last accept found, evicted and admitted
    \* the storage layer's locks and the tasks taking them
    lk_shard,         \* per shard, its RwLock: the writer holding it (0: none) and the readers
    lk_queue,         \* the TTL heap's Mutex: the task holding it (0: none)
    lk_task,          \* per task: the engine call it is in, the guards it holds, the locks to come
    \* concurrent callers of WalManager::append
    ap_lock,          \* the current_file Mutex: the caller holding it (0: none)
    ap_thread,        \* per caller: where it is in append, and its locals
    append_err,       \* history: the last append that returned an error, or None
    \* codec
    codec_rec, codec_buf, codec_out, codec_altered

cfg_vars == <<overflow_checks, sync_policy>>
proc_vars == <<phase, restarts>>
wal_vars == <<wal_dir, handle, appended, append_calls, replay_out, damage, torn>>
engine_vars == <<now, shards, ttl_queue, to_delete, get_req>>
count_vars == <<ops, acked, set_count>>
outcome_vars == <<get_res, applied, crash_img, recovering, mut_res, load_res>>
hist_vars == <<count_vars, outcome_vars>>
codec_vars == <<codec_rec, codec_buf, codec_out, codec_altered>>
snap_vars == <<snapshot_dir>>
ckpt_vars == <<checkpoint>>
repl_vars == <<repl_conn, repl_wire>>
shard_vars == <<sh_lock, sh_thread, sh_res>>
task_vars == <<task, signals>>
conn_vars == <<conn_cfg, connections, conn_shard, conn_held, accepts, accept_res>>
lock_vars == <<lk_shard, lk_queue, lk_task>>
ap_vars == <<ap_lock, ap_thread, append_err>>
mutex_vars == <<lock_vars, ap_vars>>
bg_vars == <<ckpt_vars, repl_vars, shard_vars, task_vars, conn_vars, mutex_vars>>
vars == <<cfg_vars, proc_vars, wal_vars, engine_vars, hist_vars, codec_vars, snap_vars,
          bg_vars>>

SyncPolicies == {"EveryWrite", "EveryMs", "Never"}

(***************************************************************************)
(* Bounds and the inputs the model draws from                              *)
(***************************************************************************)
MaxAppends == 3
MaxOps == 2
MaxRestarts == 1
MaxFrames == 2
MaxAccepts == 3

\* WalConfig.max_file_size, set to the length of two 47-byte records, so
\* that a record can end exactly at the limit and the third record rotates.
max_file_size == 94
\* StorageConfig.num_shards
num_shards == 2

KeyA == <<97>>
KeyB == <<98>>
Keys == {KeyA, KeyB}
\* What the REST clients send; the replica connection brings the other key
\* and other values.
ClientKeys == {KeyA}
Values == {<<120>>}
TtlChoices == {None, Some(1)}
\* The byte test_wal_checksum_validation writes over the file: 0xFF.
NewByte == 255

\* The records handed to apply_wal_entry.
WalEntries ==
    { WalEntry(U64(1), KeyA, <<120>>, U64(2), None, "Set"),
      WalEntry(U64(2), KeyA, <<>>, U64(1), None, "Del"),
      WalEntry(U64(3), KeyB, <<121>>, U64(3), Some(U64(1)), "Cas"),
      WalEntry(U64(4), KeyA, <<121>>, U64(1), None, "Incr") }

\* The records handed to WalManager::append: one of 47 bytes, one of 46.
AppendEntries == {e \in WalEntries : e.op_type \in {"Set", "Del"}}

\* The records of the codec's round trip.
CodecEntries ==
    { WalEntry(U64(258), kv[1], kv[2], U64(1), ttl, op) :
        kv \in {<< <<>>, <<>> >>, <<KeyA, <<120, 121>> >>},
        ttl \in {None, Some(U64(0)), Some(U64(1))}, op \in OpTypes }

(***************************************************************************)
(* wal/manager.rs                                                          *)
(***************************************************************************)
File(data, synced) == [data |-> data, synced |-> synced]

\* WalManager::open_next_file: the file after the highest seq in the
\* directory, created empty; the offset is its length.
open_next_file(dir) ==
    LET max_seq == Len(dir)
        next_seq == max_seq + 1
        file == File(<<>>, 0)
    IN  [dir |-> Append(dir, file),
         handle |-> [seq |-> next_seq, offset |-> Len(file.data)]]

\* The parse loop of replay_from over the bytes read: the callback's calls
\* and how the loop ended.
ReplayError(offset, cause) == [tag |-> "ReplayError", offset |-> offset, cause |-> cause]

RECURSIVE replay_loop(_, _, _, _, _)
replay_loop(buf, pos, offset, calls, checks) ==
    IF pos >= Len(buf) THEN [result |-> [tag |-> "Ok"], calls |-> calls]
    ELSE LET r == deserialize(SubBytes(buf, pos, Len(buf)), checks)
         IN  CASE r.tag = "Ok" ->
                    replay_loop(buf, pos + r.consumed, offset,
                                Append(calls, [offset |-> offset + pos, entry |-> r.entry]),
                                checks)
               [] r.tag = "Panic" -> [result |-> Panic, calls |-> calls]
               [] OTHER -> [result |-> ReplayError(offset + pos, r), calls |-> calls]

\* WalManager::replay_from with a callback that records and returns Ok:
\* seek, read_to_end of the manager's current file, then the parse loop.
replay_from(dir, h, start_offset, checks) ==
    LET data == dir[h.seq].data
        buf == IF start_offset >= Len(data) THEN <<>>
               ELSE SubBytes(data, start_offset, Len(data))
    IN  replay_loop(buf, 0, start_offset, <<>>, checks)


(***************************************************************************)
(* fxhash::hash32 of a byte slice, as get_shard calls it: the slice's Hash *)
(* writes its length as a usize (two 32-bit words) and then its bytes,     *)
(* four at a time and the rest one by one; every word w updates the hash   *)
(* to (hash.rotate_left(5) ^ w).wrapping_mul(0x9E3779B9).                  *)
(***************************************************************************)
FxSeed == <<185, 121, 55, 158>>

RotL5(w) ==
    <<((w[1] * 32) % 256) + (w[4] \div 8), ((w[2] * 32) % 256) + (w[1] \div 8),
      ((w[3] * 32) % 256) + (w[2] \div 8), ((w[4] * 32) % 256) + (w[3] \div 8)>>

\* u32::wrapping_mul on digits.
WrappingMul(a, b) ==
    LET c1 == a[1] * b[1]
        c2 == a[1] * b[2] + a[2] * b[1] + (c1 \div 256)
        c3 == a[1] * b[3] + a[2] * b[2] + a[3] * b[1] + (c2 \div 256)
        c4 == a[1] * b[4] + a[2] * b[3] + a[3] * b[2] + a[4] * b[1] + (c3 \div 256)
    IN  <<c1 % 256, c2 % 256, c3 % 256, c4 % 256>>

hash_word(h, w) == WrappingMul(Xor32(RotL5(h), w), FxSeed)

hash32(bytes) ==
    LET len == U64(Len(bytes))
        h1 == hash_word(<<0, 0, 0, 0>>, SubBytes(len, 0, 4))
        h2 == hash_word(h1, SubBytes(len, 4, 8))
        \* FxHasher32::write (write32)
        step[p \in (1..(Len(bytes) + 1)) \X Word32] ==
            IF p[1] > Len(bytes) THEN p[2]
            ELSE IF p[1] + 3 <= Len(bytes)
                 THEN step[<<p[1] + 4,
                             hash_word(p[2], <<bytes[p[1]], bytes[p[1] + 1],
                                               bytes[p[1] + 2], bytes[p[1] + 3]>>)>>]
                 ELSE step[<<p[1] + 1, hash_word(p[2], <<bytes[p[1]], 0, 0, 0>>)>>]
    IN  step[<<1, h2>>]

\* (hash as usize) % n
ModWord(w, n) == ((((((w[4] % n) * 256 + w[3]) % n) * 256 + w[2]) % n) * 256 + w[1]) % n

\* An engine that keeps every key in its first shard.
get_shard_first(key) == 1

\* StorageEngine::get_shard: the index of the key's shard (1-based here).
get_shard(key) == ModWord(hash32(key), num_shards) + 1

(***************************************************************************)
(* storage/types.rs: KvEntry                                               *)
(***************************************************************************)
NanosPerSec == 1000000000

\* The clock readings the model visits: a TTL of one second set at 0 is due
\* at the first and past due at the second.
Instants == {NanosPerSec, NanosPerSec + 1}

\* KvEntry::new at clock reading t: the version is always 1.
KvEntry_new(value, ttl_secs, t) ==
    [value |-> value,
     version |-> 1,
     created_at |-> t,
     expires_at |-> IF IsSome(ttl_secs) THEN Some(t + Unwrap(ttl_secs) * NanosPerSec)
                    ELSE None]

\* is_expired with its comparison turned around.
is_expired_inverted(entry, t) ==
    IF IsSome(entry.expires_at) THEN Unwrap(entry.expires_at) > t ELSE FALSE

\* KvEntry::is_expired at clock reading t.
is_expired(entry, t) ==
    IF IsSome(entry.expires_at) THEN t > Unwrap(entry.expires_at) ELSE FALSE

(***************************************************************************)
(* storage/shard.rs: a shard's map, a function from the keys it holds      *)
(***************************************************************************)
EmptyMap == <<>>

shard_get(map, key) == IF key \in DOMAIN map THEN Some(map[key]) ELSE None

\* Shard::set: HashMap::insert, returning the map and the old entry.
shard_set(map, key, entry) ==
    [map |-> [k \in DOMAIN map \cup {key} |-> IF k = key THEN entry ELSE map[k]],
     old |-> shard_get(map, key)]

\* Shard::del: HashMap::remove, returning the map and the old entry.
shard_del(map, key) ==
    [map |-> [k \in DOMAIN map \ {key} |-> map[k]],
     old |-> shard_get(map, key)]

(***************************************************************************)
(* storage/ttl.rs                                                          *)
(***************************************************************************)
TtlEvent(key, expires_at) == [key |-> key, expires_at |-> expires_at]

\* TtlManager::add
ttl_add(queue, key, expires_at) == queue (+) SetToBag({TtlEvent(key, expires_at)})

(***************************************************************************)
(* storage/engine.rs: the engine's operations on (shards, ttl queue)       *)
(***************************************************************************)
Engine(sh, q) == [shards |-> sh, queue |-> q]

\* StorageEngine::set at clock reading t.  It never fails.
engine_set(eng, key, value, ttl_secs, t) ==
    LET i == get_shard(key)
        entry == KvEntry_new(value, ttl_secs, t)
        r == shard_set(eng.shards[i], key, entry)
        q == IF IsSome(entry.expires_at)
             THEN ttl_add(eng.queue, key, Unwrap(entry.expires_at))
             ELSE eng.queue
    IN  [engine |-> Engine([eng.shards EXCEPT ![i] = r.map], q), result |-> "Ok"]

\* del that reports success and leaves the entry in the shard.
engine_del_keeps(eng, key, expected_version) ==
    LET i == get_shard(key)
        r == shard_del(eng.shards[i], key)
    IN  IF IsSome(r.old)
        THEN [engine |-> eng, result |-> "Ok"]
        ELSE [engine |-> eng, result |-> "KeyNotFound"]

\* StorageEngine::del; the expected version is not looked at.
engine_del(eng, key, expected_version) ==
    LET i == get_shard(key)
        r == shard_del(eng.shards[i], key)
    IN  IF IsSome(r.old)
        THEN [engine |-> Engine([eng.shards EXCEPT ![i] = r.map], eng.queue), result |-> "Ok"]
        ELSE [engine |-> eng, result |-> "KeyNotFound"]

\* StorageEngine::exists at clock reading t.
engine_exists(eng, key, t) ==
    LET m == eng.shards[get_shard(key)]
    IN  key \in DOMAIN m /\ ~is_expired(m[key], t)

\* StorageEngine::apply_wal_entry: the record's ttl is handed to set as it
\* is, and its version and timestamp are not used.
apply_wal_entry(eng, entry, t) ==
    LET ttl == IF IsSome(entry.ttl) THEN Some(AsNat(Unwrap(entry.ttl))) ELSE None
    IN  CASE entry.op_type = "Set"  -> engine_set(eng, entry.key, entry.value, ttl, t)
          [] entry.op_type = "Del"  -> engine_del(eng, entry.key, None)
          [] entry.op_type = "Incr" -> engine_set(eng, entry.key, entry.value, ttl, t)
          [] entry.op_type = "Cas"  -> engine_set(eng, entry.key, entry.value, ttl, t)


(***************************************************************************)
(* background/replica.rs: handle_replica_connection.  A frame on the       *)
(* stream is the record's size in eight bytes, least significant first,    *)
(* and then the record.                                                    *)
(***************************************************************************)
\* The bytes WalEntry::deserialize reads a record from: every integer
\* least significant byte first.  This is what a peer has to send for the
\* record to be decoded.
le_record(e) ==
    LET body == e.timestamp
                \o e.version
                \o (IF IsSome(e.ttl) THEN Unwrap(e.ttl) ELSE U64(0))
                \o <<as_u8(e.op_type)>>
                \o U64(Len(e.key))
                \o U64(Len(e.value))
                \o e.key
                \o e.value
    IN  body \o Crc32(body)

\* A frame as the handler takes it off its buffer.
frame(entry_data) == U64(Len(entry_data)) \o entry_data

\* What the handler did, in order: a record applied, a record refused by
\* apply_wal_entry, a record refused by deserialize, a write to the stream.
Applied(n) == [what |-> "applied", frame |-> n]
ApplyFailed(n) == [what |-> "apply failed", frame |-> n]
DeserializeFailed(n) == [what |-> "deserialize failed", frame |-> n]
Written(bytes) == [what |-> "written", bytes |-> bytes]

\* The Ok arm of apply_wal_entry that writes ACK whatever the mode.
on_applied_always(log, sync_mode) == Append(log, Written("ACK"))

\* The Ok arm of apply_wal_entry: ACK in sync_mode.
on_applied(log, sync_mode) == IF sync_mode THEN Append(log, Written("ACK")) ELSE log

\* The arms of the match on apply_wal_entry's result r for frame n: the
\* handler's state after them, and whether the while loop goes on.  Both
\* arms go on.
frame_applied(c, n, r, sync_mode) ==
    IF r.result = "Ok"
    THEN [state |-> [c EXCEPT !.engine = r.engine,
                              !.log = on_applied(Append(c.log, Applied(n)), sync_mode)],
          go_on |-> TRUE]
    ELSE [state |-> [c EXCEPT !.engine = r.engine,
                              !.log = Append(Append(c.log, ApplyFailed(n)), Written("ERR"))],
          go_on |-> TRUE]

\* The arms of the match on deserialize's result d for frame n.  The Err
\* arm writes ERR and breaks out of the while loop; a panic ends the task.
frame_deserialized(c, n, d, sync_mode, t) ==
    IF d.tag = "Panic"
    THEN [state |-> [c EXCEPT !.panicked = TRUE], go_on |-> FALSE]
    ELSE IF d.tag # "Ok"
    THEN [state |-> [c EXCEPT !.log = Append(Append(c.log, DeserializeFailed(n)),
                                             Written("ERR"))],
          go_on |-> FALSE]
    ELSE frame_applied(c, n, apply_wal_entry(c.engine, d.entry, t), sync_mode)

\* One pass of the while loop's body over the frame at pos.  c is the
\* handler's state: buffer, pos, the engine, the log and the number of
\* frames taken so far.
replica_frame(c, entry_size, sync_mode, t, checks) ==
    frame_deserialized([c EXCEPT !.pos = c.pos + 8 + entry_size, !.frames = c.frames + 1],
                       c.frames + 1,
                       deserialize(SubBytes(c.buffer, c.pos + 8, c.pos + 8 + entry_size),
                                   checks),
                       sync_mode, t)

\* The while loop over the complete frames of the buffer.  An entry_size
\* too large for the model's integers is larger than any buffer.
RECURSIVE replica_process(_, _, _, _)
RECURSIVE replica_continue(_, _, _, _)
replica_continue(f, sync_mode, t, checks) ==
    IF f.go_on THEN replica_process(f.state, sync_mode, t, checks) ELSE f.state

replica_process(c, sync_mode, t, checks) ==
    IF ~(c.pos < Len(c.buffer)) THEN c
    ELSE IF Len(c.buffer) - c.pos < 8 THEN c
    ELSE LET size == from_le_bytes(SubBytes(c.buffer, c.pos, c.pos + 8))
         IN  IF ~IsSmall(size) THEN c
             ELSE IF Len(c.buffer) - c.pos < 8 + AsNat(size) THEN c
             ELSE replica_continue(replica_frame(c, AsNat(size), sync_mode, t, checks),
                                   sync_mode, t, checks)

\* A compaction that moves pos back and leaves the buffer as it is.
replica_compact_rewinds(c) == [c EXCEPT !.pos = 0]

\* The compaction of the buffer at the end of a round.
replica_compact(c) ==
    IF c.pos > 0
    THEN [c EXCEPT !.buffer = SubBytes(c.buffer, c.pos, Len(c.buffer)), !.pos = 0]
    ELSE c

\* One round of the handler's outer loop after a read of n > 0 bytes: the
\* bytes join the buffer, the complete frames are processed, and the
\* buffer is compacted.
replica_round(c, bytes, sync_mode, t, checks) ==
    replica_compact(replica_process([c EXCEPT !.buffer = c.buffer \o bytes],
                                    sync_mode, t, checks))

(***************************************************************************)
(* storage/snapshot.rs: a snapshot file is bincode::serialize of           *)
(* Vec<HashMap<String, KvEntry>>.  bincode writes every u64 and every      *)
(* length as eight bytes, least significant first, a struct as its fields  *)
(* in declaration order, an Option as a tag byte and then the value, and a *)
(* map as its length and then its pairs in the map's iteration order.      *)
(***************************************************************************)
\* The value of a u64 whose upper four bytes are zero.
u64_value(d) == d[1] + 256 * d[2] + 65536 * d[3] + 16777216 * d[4]

\* One iteration order of a HashMap's keys; the map may also hand them out
\* in the opposite order.
RECURSIVE IterOrder(_)
IterOrder(S) ==
    IF S = {} THEN <<>>
    ELSE LET k == CHOOSE x \in S : TRUE IN <<k>> \o IterOrder(S \ {k})

ser_bytes(b) == U64(Len(b)) \o b

ser_option_u64(o) == IF IsSome(o) THEN <<1>> \o U64(Unwrap(o)) ELSE <<0>>

\* KvEntry: value, version, created_at, expires_at.
ser_entry(e) ==
    ser_bytes(e.value) \o U64(e.version) \o U64(e.created_at) \o ser_option_u64(e.expires_at)

RECURSIVE ser_pairs(_, _, _)
ser_pairs(map, order, i) ==
    IF i > Len(order) THEN <<>>
    ELSE ser_bytes(order[i]) \o ser_entry(map[order[i]]) \o ser_pairs(map, order, i + 1)

ser_map(map, rev) ==
    LET o == IterOrder(DOMAIN map)
        order == IF rev THEN Reverse(o) ELSE o
    IN  U64(Len(order)) \o ser_pairs(map, order, 1)

RECURSIVE ser_maps(_, _, _)
ser_maps(state, rev, i) ==
    IF i > Len(state) THEN <<>>
    ELSE ser_map(state[i], rev) \o ser_maps(state, rev, i + 1)

\* bincode::serialize(&state)
bincode_serialize(state, rev) == U64(Len(state)) \o ser_maps(state, rev, 1)

\* The readers: each takes the buffer and a position and returns the value
\* read and the position after it, or fails on a short buffer.
DeFail == [ok |-> FALSE]
DeOk(val, pos) == [ok |-> TRUE, val |-> val, pos |-> pos]

de_u64(buf, pos) ==
    IF pos + 8 > Len(buf) THEN DeFail
    ELSE DeOk(u64_value(SubBytes(buf, pos, pos + 8)), pos + 8)

de_bytes(buf, pos) ==
    LET n == de_u64(buf, pos)
    IN  IF ~n.ok THEN DeFail
        ELSE IF n.pos + n.val > Len(buf) THEN DeFail
        ELSE DeOk(SubBytes(buf, n.pos, n.pos + n.val) \o <<>>, n.pos + n.val)

de_string(buf, pos) ==
    LET b == de_bytes(buf, pos)
    IN  IF ~b.ok THEN DeFail
        ELSE IF ~IsUtf8(b.val) THEN DeFail
        ELSE b

de_option_u64(buf, pos) ==
    IF pos + 1 > Len(buf) THEN DeFail
    ELSE IF buf[pos + 1] = 0 THEN DeOk(None, pos + 1)
    ELSE IF buf[pos + 1] = 1
         THEN LET v == de_u64(buf, pos + 1)
              IN  IF v.ok THEN DeOk(Some(v.val), v.pos) ELSE DeFail
    ELSE DeFail

de_entry(buf, pos) ==
    LET value == de_bytes(buf, pos)
    IN  IF ~value.ok THEN DeFail
        ELSE LET version == de_u64(buf, value.pos)
             IN  IF ~version.ok THEN DeFail
                 ELSE LET created_at == de_u64(buf, version.pos)
                      IN  IF ~created_at.ok THEN DeFail
                          ELSE LET expires_at == de_option_u64(buf, created_at.pos)
                               IN  IF ~expires_at.ok THEN DeFail
                                   ELSE DeOk([value |-> value.val,
                                              version |-> version.val,
                                              created_at |-> created_at.val,
                                              expires_at |-> expires_at.val],
                                             expires_at.pos)

\* The pairs of a map, inserted as they are read.
RECURSIVE de_pairs(_, _, _, _)
de_pairs(buf, pos, left, map) ==
    IF left = 0 THEN DeOk(map, pos)
    ELSE LET key == de_string(buf, pos)
         IN  IF ~key.ok THEN DeFail
             ELSE LET entry == de_entry(buf, key.pos)
                  IN  IF ~entry.ok THEN DeFail
                      ELSE de_pairs(buf, entry.pos, left - 1,
                                    shard_set(map, key.val, entry.val).map)

de_map(buf, pos) ==
    LET n == de_u64(buf, pos)
    IN  IF ~n.ok THEN DeFail ELSE de_pairs(buf, n.pos, n.val, EmptyMap)

RECURSIVE de_maps(_, _, _, _)
de_maps(buf, pos, left, state) ==
    IF left = 0 THEN DeOk(state, pos)
    ELSE LET m == de_map(buf, pos)
         IN  IF ~m.ok THEN DeFail
             ELSE de_maps(buf, m.pos, left - 1, Append(state, m.val))

\* bincode::deserialize::<Vec<HashMap<String, KvEntry>>>(&buffer)
bincode_deserialize(buffer) ==
    LET n == de_u64(buffer, 0)
    IN  IF ~n.ok THEN DeFail ELSE de_maps(buffer, n.pos, n.val, <<>>)

\* StorageEngine::snapshot: the shards' maps in shard order.
engine_snapshot(eng) == eng.shards

\* load_from_snapshot that adds the snapshot's entries to the maps.
load_from_snapshot_extend(eng, state) ==
    IF Len(state) # Len(eng.shards) THEN [engine |-> eng, result |-> "Panic"]
    ELSE [engine |-> Engine([i \in 1..Len(eng.shards) |->
                                [k \in DOMAIN eng.shards[i] \cup DOMAIN state[i] |->
                                    IF k \in DOMAIN state[i] THEN state[i][k]
                                    ELSE eng.shards[i][k]]],
                            eng.queue),
          result |-> "Ok"]

\* StorageEngine::load_from_snapshot: the assertion on the number of
\* shards, then every shard's map replaced.  The TTL queue is not touched.
load_from_snapshot(eng, state) ==
    IF Len(state) # Len(eng.shards) THEN [engine |-> eng, result |-> "Panic"]
    ELSE [engine |-> Engine([i \in 1..Len(eng.shards) |-> state[i]], eng.queue),
          result |-> "Ok"]

\* The file name create_snapshot gives: snapshot_<unix seconds>.bin.
snapshot_name(t) == t \div NanosPerSec

SnapshotFile(name, data, state) == [name |-> name, data |-> data, state |-> state]

\* SnapshotManager::load_snapshot.
load_snapshot(dir, eng, filename) ==
    IF ~\E f \in dir : f.name = filename THEN [engine |-> eng, result |-> "NotFound"]
    ELSE LET f == CHOOSE f \in dir : f.name = filename
             state == bincode_deserialize(f.data)
         IN  IF ~state.ok THEN [engine |-> eng, result |-> "Serialization"]
             ELSE load_from_snapshot(eng, state.val)

(***************************************************************************)
(* catalog/bootstrap.rs: the system catalog written at start-up.  The      *)
(* values are JSON documents the engine does not look into.                *)
(***************************************************************************)
SettingsAuthKey == <<95, 115, 121, 115, 46, 115, 101, 116, 116, 105, 110, 103, 115, 58, 97, 117, 116, 104>>

\* "_sys.roles:admin", "_sys.roles:reader", "_sys.roles:writer",
\* "_sys.users:admin", "_sys.grants:admin", "_sys.settings:auth",
\* "_sys.settings:audit", in the order they are set.
CatalogKeys ==
    << <<95, 115, 121, 115, 46, 114, 111, 108, 101, 115, 58, 97, 100, 109, 105, 110>>,
       <<95, 115, 121, 115, 46, 114, 111, 108, 101, 115, 58, 114, 101, 97, 100, 101, 114>>,
       <<95, 115, 121, 115, 46, 114, 111, 108, 101, 115, 58, 119, 114, 105, 116, 101, 114>>,
       <<95, 115, 121, 115, 46, 117, 115, 101, 114, 115, 58, 97, 100, 109, 105, 110>>,
       <<95, 115, 121, 115, 46, 103, 114, 97, 110, 116, 115, 58, 97, 100, 109, 105, 110>>,
       <<95, 115, 121, 115, 46, 115, 101, 116, 116, 105, 110, 103, 115, 58, 97, 117, 116, 104>>,
       <<95, 115, 121, 115, 46, 115, 101, 116, 116, 105, 110, 103, 115, 58, 97, 117, 100, 105, 116>> >>

CatalogValue == <<123, 125>>

RECURSIVE set_all(_, _, _, _)
set_all(eng, keys, i, t) ==
    IF i > Len(keys) THEN eng
    ELSE set_all(engine_set(eng, keys[i], CatalogValue, None, t).engine, keys, i + 1, t)

bootstrap_if_needed(eng, t) ==
    IF engine_exists(eng, SettingsAuthKey, t) THEN eng
    ELSE set_all(eng, CatalogKeys, 1, t)

\* StorageEngine::new: empty shards and an empty TTL queue.
engine_new == Engine([i \in 1..num_shards |-> EmptyMap], EmptyBag)

(***************************************************************************)
(* Initial state: main has started on an empty data directory.             *)
(***************************************************************************)
\* The background tasks: the sweep spawned by StorageEngine::new, the
\* fsync task spawned by WalManager::new under EveryMs, the checkpoint task
\* spawned by WorkerManager::new, and the replica accept loop, which the
\* server does not start.
TaskNames == {"ttl_sweep", "wal_fsync", "checkpoint", "replica_accept"}

started(t, policy) ==
    CASE t = "ttl_sweep" -> "running"
      [] t = "checkpoint" -> "running"
      [] t = "wal_fsync" -> IF policy = "EveryMs" THEN "running" ELSE "not started"
      [] t = "replica_accept" -> "not started"

\* The threads that call a shard's methods, and a thread in none of them.
ShardThreads == {1, 2}
Idle == [pc |-> "idle"]
LockTasks == {1, 2}
NoCall == [op |-> "idle", holding |-> {}, inside |-> FALSE, todo |-> <<>>]
AppendThreads == {1, 2}

Boot ==
    /\ phase = "serving"
    /\ restarts = 0
    /\ wal_dir = open_next_file(<<>>).dir
    /\ handle = open_next_file(<<>>).handle
    /\ appended = <<>>
    /\ append_calls = 0
    /\ replay_out = None
    /\ damage = None
    /\ torn = None
    /\ now = 0
    /\ shards = bootstrap_if_needed(engine_new, 0).shards
    /\ ttl_queue = bootstrap_if_needed(engine_new, 0).queue
    /\ to_delete = <<>>
    /\ get_req = None
    /\ ops = 0
    /\ acked = None
    /\ set_count = [k \in Keys |-> 0]
    /\ get_res = None
    /\ applied = None
    /\ crash_img = None
    /\ recovering = FALSE
    /\ mut_res = None
    /\ load_res = None
    /\ snapshot_dir = {}
    /\ checkpoint = None
    /\ repl_conn = None
    /\ repl_wire = [bytes |-> <<>>, sent |-> 0, closed |-> FALSE, stream |-> <<>>, ends |-> <<>>]
    /\ sh_lock = [writer |-> 0, readers |-> {}]
    /\ sh_thread = [th \in ShardThreads |-> Idle]
    /\ sh_res = None
    /\ task = [t \in TaskNames |-> [state |-> started(t, sync_policy), rounds |-> 0]]
    /\ signals = {}
    /\ conn_cfg = None
    /\ connections = <<>>
    /\ conn_shard = <<>>
    /\ conn_held = {}
    /\ accepts = 0
    /\ accept_res = None
    /\ lk_shard = [i \in 1..num_shards |-> [writer |-> 0, readers |-> {}]]
    /\ lk_queue = 0
    /\ lk_task = [th \in LockTasks |-> NoCall]
    /\ ap_lock = 0
    /\ ap_thread = [th \in AppendThreads |-> Idle]
    /\ append_err = None
    /\ codec_rec = None
    /\ codec_buf = <<>>
    /\ codec_out = None
    /\ codec_altered = FALSE

\* The server: built with overflow checks (cargo's dev profile) and
\* configured with SyncPolicy::EveryWrite.  The engine's operations read
\* neither.
Init ==
    /\ overflow_checks = TRUE
    /\ sync_policy = "EveryWrite"
    /\ Boot

\* The WAL manager: either build profile, any sync policy.
WalInit ==
    /\ overflow_checks \in BOOLEAN
    /\ sync_policy \in SyncPolicies
    /\ Boot

\* The WAL manager's appends, which do not depend on the build profile:
\* any sync policy.
AppendInit ==
    /\ overflow_checks = TRUE
    /\ sync_policy \in SyncPolicies
    /\ Boot

\* The WAL manager configured with SyncPolicy::EveryMs.
SyncInit ==
    /\ overflow_checks = TRUE
    /\ sync_policy = "EveryMs"
    /\ Boot

\* The codec, and the manager over damaged files: either build profile;
\* every write is synced, so a crash loses no byte of a segment.
CodecInit ==
    /\ overflow_checks \in BOOLEAN
    /\ sync_policy = "EveryWrite"
    /\ Boot

Lookup(sh, key) == shard_get(sh[get_shard(key)], key)

(***************************************************************************)
(* The process: a crash of the machine, and main starting again            *)
(***************************************************************************)
\* What a crash may leave of a file: at least what was fsynced.
CrashLens(f) == {f.synced, Len(f.data)} \cup {n \in {Len(f.data) - 1} : n > f.synced}

\* The directories a crash may leave: each file cut independently.
RECURSIVE CrashDirs(_, _)
CrashDirs(dir, i) ==
    IF i > Len(dir) THEN {<<>>}
    ELSE {<<File(SubBytes(dir[i].data, 0, c), dir[i].synced)>> \o rest :
            c \in CrashLens(dir[i]), rest \in CrashDirs(dir, i + 1)}

Crash ==
    /\ phase = "serving"
    /\ \E d \in CrashDirs(wal_dir, 1) : wal_dir' = d
    /\ phase' = "crashed"
    /\ crash_img' = Some(shards)
    /\ get_res' = None
    /\ applied' = None
    /\ recovering' = FALSE
    /\ mut_res' = None
    /\ load_res' = None
    /\ get_req' = None
    /\ to_delete' = <<>>
    /\ replay_out' = None
    /\ UNCHANGED <<cfg_vars, bg_vars, restarts, handle, appended, append_calls, damage, torn, now,
                   shards, ttl_queue, count_vars, codec_vars, snap_vars>>

\* main: WalManager::new opens the next segment, StorageEngine::new starts
\* empty, the WAL is not replayed, the catalog is bootstrapped, and the
\* servers start.
Main ==
    /\ phase = "crashed"
    /\ restarts < MaxRestarts
    /\ LET wal == open_next_file(wal_dir)
           eng == bootstrap_if_needed(engine_new, now)
       IN  /\ wal_dir' = wal.dir
           /\ handle' = wal.handle
           /\ shards' = eng.shards
           /\ ttl_queue' = eng.queue
    /\ phase' = "serving"
    /\ restarts' = restarts + 1
    /\ recovering' = TRUE
    /\ set_count' = [k \in Keys |-> 0]
    /\ replay_out' = None
    /\ UNCHANGED <<cfg_vars, bg_vars, appended, append_calls, damage, torn, now, to_delete, get_req,
                   ops, acked, get_res, applied, crash_img, mut_res, load_res,
                   codec_vars, snap_vars>>


(***************************************************************************)
(* The WAL manager's operations, called as its tests call them             *)
(***************************************************************************)
\* entry.serialize() for the records the model appends, computed once.
SerializedEntries == {<<e, serialize(e)>> : e \in AppendEntries}
serialized_of(entry) == (CHOOSE p \in SerializedEntries : p[1] = entry)[2]

\* The rotation check with >= in place of >.
append_open_at_limit(dir, h, serialized) ==
    IF h.offset + Len(serialized) >= max_file_size
    THEN open_next_file(dir)
    ELSE [dir |-> dir, handle |-> h]

\* The first steps of WalManager::append: serialize, rotate when the record
\* would push the offset above max_file_size.
append_open(dir, h, serialized) ==
    IF h.offset + Len(serialized) > max_file_size
    THEN open_next_file(dir)
    ELSE [dir |-> dir, handle |-> h]

\* An append that never calls sync_all.
sync_if_every_write_skipped(policy, len, synced) == synced

\* The end of WalManager::append: sync_all under SyncPolicy::EveryWrite,
\* nothing under the other policies.  The result is how much of the file
\* is fsynced when append returns.
sync_if_every_write(policy, len, synced) ==
    IF policy = "EveryWrite" THEN len ELSE synced

\* WalManager::append returning Ok.
WalAppend(entry) ==
    /\ phase = "serving"
    /\ append_calls < MaxAppends
    /\ LET serialized == serialized_of(entry)
           o == append_open(wal_dir, handle, serialized)
           seq == o.handle.seq
           data == o.dir[seq].data \o serialized
           entry_offset == o.handle.offset
           synced == sync_if_every_write(sync_policy, Len(data), o.dir[seq].synced)
       IN  /\ wal_dir' = [o.dir EXCEPT ![seq] = File(data, synced)]
           /\ handle' = [seq |-> seq, offset |-> entry_offset + Len(serialized)]
           /\ appended' = Append(appended, [entry |-> entry, seq |-> seq,
                                            offset |-> entry_offset,
                                            len |-> Len(serialized)])
    /\ append_calls' = append_calls + 1
    /\ replay_out' = None
    /\ UNCHANGED <<cfg_vars, bg_vars, proc_vars, damage, torn, engine_vars, hist_vars, codec_vars, snap_vars>>

\* What is kept of an append that returned Err: the record, the statement
\* that failed and which call it was.
AppendErr(entry, cause, call) == Some([entry |-> entry, cause |-> cause, call |-> call])

\* write_all fails after n bytes reached the file: append returns the I/O
\* error before the offset is advanced.  One such failure is modelled per
\* behaviour.
TornLens(len) == {1, HeaderLen - 1, len - 1}

WalAppendTorn(entry) ==
    /\ phase = "serving"
    /\ append_calls < MaxAppends
    /\ torn = None
    /\ LET serialized == serialized_of(entry)
           o == append_open(wal_dir, handle, serialized)
           seq == o.handle.seq
       IN  \E n \in TornLens(Len(serialized)) :
             /\ wal_dir' = [o.dir EXCEPT
                              ![seq] = File(o.dir[seq].data \o SubBytes(serialized, 0, n),
                                            o.dir[seq].synced)]
             /\ handle' = o.handle
             /\ torn' = Some([seq |-> seq, at |-> Len(o.dir[seq].data), len |-> n,
                              after |-> Len(appended)])
    /\ append_calls' = append_calls + 1
    /\ append_err' = AppendErr(entry, "write", append_calls + 1)
    /\ replay_out' = None
    /\ UNCHANGED <<cfg_vars, proc_vars, appended, damage, engine_vars, hist_vars, codec_vars,
                   snap_vars, ckpt_vars, repl_vars, shard_vars, task_vars, conn_vars,
                   lock_vars, ap_lock, ap_thread>>

\* open_next_file fails in the rotation (read_dir or open returns an
\* error): append returns it through the ? before the handle is replaced.
WalAppendOpenFails(entry) ==
    /\ phase = "serving"
    /\ append_calls < MaxAppends
    /\ handle.offset + Len(serialized_of(entry)) > max_file_size
    /\ append_calls' = append_calls + 1
    /\ append_err' = AppendErr(entry, "open", append_calls + 1)
    /\ replay_out' = None
    /\ UNCHANGED <<cfg_vars, proc_vars, wal_dir, handle, appended, damage, torn, engine_vars,
                   hist_vars, codec_vars, snap_vars, ckpt_vars, repl_vars, shard_vars,
                   task_vars, conn_vars, lock_vars, ap_lock, ap_thread>>

\* sync_all fails under SyncPolicy::EveryWrite: append returns the error
\* after write_all wrote the record and handle.offset was advanced.
WalAppendSyncFails(entry) ==
    /\ phase = "serving"
    /\ append_calls < MaxAppends
    /\ sync_policy = "EveryWrite"
    /\ LET serialized == serialized_of(entry)
           o == append_open(wal_dir, handle, serialized)
           seq == o.handle.seq
       IN  /\ wal_dir' = [o.dir EXCEPT ![seq] = File(o.dir[seq].data \o serialized,
                                                     o.dir[seq].synced)]
           /\ handle' = [seq |-> seq, offset |-> o.handle.offset + Len(serialized)]
    /\ append_calls' = append_calls + 1
    /\ append_err' = AppendErr(entry, "sync", append_calls + 1)
    /\ replay_out' = None
    /\ UNCHANGED <<cfg_vars, proc_vars, appended, damage, torn, engine_vars, hist_vars,
                   codec_vars, snap_vars, ckpt_vars, repl_vars, shard_vars, task_vars,
                   conn_vars, lock_vars, ap_lock, ap_thread>>

\* WalManager::sync, run by the background task under EveryMs.
WalSync ==
    /\ phase = "serving"
    /\ sync_policy = "EveryMs"
    /\ wal_dir[handle.seq].synced # Len(wal_dir[handle.seq].data)
    /\ wal_dir' = [wal_dir EXCEPT ![handle.seq].synced = Len(wal_dir[handle.seq].data)]
    /\ UNCHANGED <<cfg_vars, bg_vars, proc_vars, handle, appended, append_calls, replay_out,
                   damage, torn, engine_vars, hist_vars, codec_vars, snap_vars>>

\* WalManager::replay_from(0, callback).  A panic ends the process.
WalReplay ==
    /\ phase = "serving"
    /\ LET r == replay_from(wal_dir, handle, 0, overflow_checks)
       IN  /\ replay_out' = Some(r)
           /\ phase' = IF r.result.tag = "Panic" THEN "crashed" ELSE phase
           /\ crash_img' = IF r.result.tag = "Panic" THEN Some(shards) ELSE crash_img
    /\ UNCHANGED <<cfg_vars, bg_vars, restarts, wal_dir, handle, appended, append_calls, damage,
                   torn, engine_vars, ops, acked, set_count, get_res, applied, recovering,
                   mut_res, load_res,
                   codec_vars, snap_vars>>

\* One byte of a segment file is overwritten from outside, as
\* test_wal_checksum_validation does.
AlterByte ==
    /\ damage = None
    /\ \E seq \in 1..Len(wal_dir) : \E pos \in 1..Len(wal_dir[seq].data) :
         /\ wal_dir[seq].data[pos] # NewByte
         /\ wal_dir' = [wal_dir EXCEPT ![seq].data[pos] = NewByte]
         /\ damage' = Some([seq |-> seq, pos |-> pos - 1])
    /\ replay_out' = None
    /\ UNCHANGED <<cfg_vars, bg_vars, proc_vars, handle, appended, append_calls, torn, engine_vars,
                   hist_vars, codec_vars, snap_vars>>

(***************************************************************************)
(* The engine's operations, called by the REST handlers, the replica       *)
(* connection and the TTL sweeper                                          *)
(***************************************************************************)
Present(key) == key \in DOMAIN shards[get_shard(key)]

\* The outcome recorded for the previous operation is dropped when another
\* operation runs.
Forget ==
    /\ get_res' = None
    /\ applied' = None
    /\ crash_img' = None
    /\ recovering' = FALSE
    /\ mut_res' = None
    /\ load_res' = None

\* What a set or del was called with, what it returned, the entry the
\* shard held for the key before the call, and whether the call left every
\* shard as it was.
MutRes(op, key, value, expected_version, r) ==
    Some([op |-> op, key |-> key, value |-> value, expected |-> expected_version,
          result |-> r.result, old |-> Lookup(shards, key),
          same |-> (r.engine.shards = shards), followed |-> FALSE])

\* The get that begins right after a set or del is marked as following it;
\* a later get is not.
Followed(res) ==
    IF res = None \/ Unwrap(res).followed THEN None
    ELSE Some([Unwrap(res) EXCEPT !.followed = TRUE])

\* The outcomes of the operations other than set and del are dropped.
ForgetOthers ==
    /\ get_res' = None
    /\ applied' = None
    /\ crash_img' = None
    /\ recovering' = FALSE
    /\ load_res' = None

\* set_handler: engine.set, then the success response.
ClientSet(key, value, ttl) ==
    /\ phase = "serving"
    /\ ops < MaxOps
    /\ LET r == engine_set(Engine(shards, ttl_queue), key, value, ttl, now)
       IN  /\ shards' = r.engine.shards
           /\ ttl_queue' = r.engine.queue
           /\ mut_res' = MutRes("Set", key, value, None, r)
    /\ set_count' = [set_count EXCEPT ![key] = IF Present(key) THEN @ + 1 ELSE 1]
    /\ acked' = Some([op |-> "Set", key |-> key, value |-> value])
    /\ ops' = ops + 1
    /\ ForgetOthers
    /\ UNCHANGED <<cfg_vars, bg_vars, proc_vars, wal_vars, now, to_delete, get_req, codec_vars, snap_vars>>

\* delete_handler: engine.del(key, None); success is reported only for Ok.
ClientDel(key) ==
    /\ phase = "serving"
    /\ ops < MaxOps
    /\ LET r == engine_del(Engine(shards, ttl_queue), key, None)
       IN  /\ shards' = r.engine.shards
           /\ ttl_queue' = r.engine.queue
           /\ acked' = IF r.result = "Ok"
                       THEN Some([op |-> "Del", key |-> key, value |-> <<>>])
                       ELSE acked
           /\ mut_res' = MutRes("Del", key, <<>>, None, r)
    /\ set_count' = [set_count EXCEPT ![key] = 0]
    /\ ops' = ops + 1
    /\ ForgetOthers
    /\ UNCHANGED <<cfg_vars, bg_vars, proc_vars, wal_vars, now, to_delete, get_req, codec_vars, snap_vars>>

\* StorageEngine::del called with an expected version, which the callers
\* in the repository never pass.
ExpectedVersions == {None, Some(1), Some(2)}

EngineDel(key, expected_version) ==
    /\ phase = "serving"
    /\ ops < MaxOps
    /\ LET r == engine_del(Engine(shards, ttl_queue), key, expected_version)
       IN  /\ shards' = r.engine.shards
           /\ ttl_queue' = r.engine.queue
           /\ mut_res' = MutRes("Del", key, <<>>, expected_version, r)
    /\ set_count' = [set_count EXCEPT ![key] = 0]
    /\ ops' = ops + 1
    /\ ForgetOthers
    /\ UNCHANGED <<cfg_vars, bg_vars, proc_vars, wal_vars, now, to_delete, get_req, acked,
                   codec_vars, snap_vars>>

\* StorageEngine::get, first half: shard.get clones the entry under the
\* read lock.
GetBegin(key) ==
    /\ phase = "serving"
    /\ get_req = None
    /\ get_req' = Some([key |-> key, entry |-> Lookup(shards, key)])
    /\ ForgetOthers
    /\ mut_res' = Followed(mut_res)
    /\ UNCHANGED <<cfg_vars, bg_vars, proc_vars, wal_vars, now, shards, ttl_queue, to_delete,
                   count_vars, codec_vars, snap_vars>>

\* StorageEngine::get, second half: the expiry check against the clock,
\* the removal of an expired entry, and the return.
GetFinish ==
    /\ phase = "serving"
    /\ get_req # None
    /\ LET req == Unwrap(get_req)
           i == get_shard(req.key)
           expired == IsSome(req.entry) /\ is_expired(Unwrap(req.entry), now)
       IN  /\ shards' = IF expired
                        THEN [shards EXCEPT ![i] = shard_del(shards[i], req.key).map]
                        ELSE shards
           /\ set_count' = IF expired /\ Present(req.key)
                           THEN [set_count EXCEPT ![req.key] = 0]
                           ELSE set_count
           /\ get_res' = Some([key |-> req.key,
                               status |-> IF IsSome(req.entry) /\ ~expired
                                          THEN "Ok" ELSE "KeyNotFound",
                               entry |-> IF IsSome(req.entry) /\ ~expired
                                         THEN req.entry ELSE None,
                               seen |-> req.entry,
                               at |-> now])
    /\ get_req' = None
    /\ applied' = None
    /\ crash_img' = None
    /\ recovering' = FALSE
    /\ mut_res' = IF mut_res # None /\ Unwrap(mut_res).followed THEN mut_res ELSE None
    /\ load_res' = None
    /\ UNCHANGED <<cfg_vars, bg_vars, proc_vars, wal_vars, now, ttl_queue, to_delete, ops, acked,
                   codec_vars, snap_vars>>

\* handle_replica_connection: engine.apply_wal_entry on a received record.
ReplicaApply(entry) ==
    /\ phase = "serving"
    /\ ops < MaxOps
    /\ LET r == apply_wal_entry(Engine(shards, ttl_queue), entry, now)
       IN  /\ shards' = r.engine.shards
           /\ ttl_queue' = r.engine.queue
           /\ applied' = Some([entry |-> entry, result |-> r.result,
                               stored |-> Lookup(r.engine.shards, entry.key)])
    /\ set_count' = IF entry.op_type = "Del"
                    THEN [set_count EXCEPT ![entry.key] = 0]
                    ELSE [set_count EXCEPT ![entry.key] = IF Present(entry.key) THEN @ + 1 ELSE 1]
    /\ ops' = ops + 1
    /\ get_res' = None
    /\ crash_img' = None
    /\ recovering' = FALSE
    /\ mut_res' = None
    /\ load_res' = None
    /\ UNCHANGED <<cfg_vars, bg_vars, proc_vars, wal_vars, now, to_delete, get_req, acked,
                   codec_vars, snap_vars>>

\* The clock (SystemTime::now, in nanoseconds) moves forward to a later
\* instant.
Tick ==
    /\ \E t \in Instants :
         /\ t > now
         /\ now' = t
    /\ ForgetOthers
    /\ UNCHANGED mut_res
    /\ UNCHANGED <<cfg_vars, bg_vars, proc_vars, wal_vars, shards, ttl_queue, to_delete, get_req,
                   count_vars, codec_vars, snap_vars>>

\* The events the sweeper pops at clock reading t: every event due.
Due(queue, t) == {e \in BagToSet(queue) : e.expires_at <= t}

RECURSIVE pop_due(_, _, _)
pop_due(queue, t, keys) ==
    IF Due(queue, t) = {} THEN [queue |-> queue, keys |-> keys]
    ELSE LET e == CHOOSE x \in Due(queue, t) :
                     \A y \in Due(queue, t) : x.expires_at <= y.expires_at
         IN  pop_due(queue (-) SetToBag({e}), t, Append(keys, e.key))

\* The sweeper wakes: under the queue's lock it pops the due events.
SweepPop ==
    /\ phase = "serving"
    /\ to_delete = <<>>
    /\ Due(ttl_queue, now) # {}
    /\ LET r == pop_due(ttl_queue, now, <<>>)
       IN  /\ ttl_queue' = r.queue
           /\ to_delete' = r.keys
    /\ Forget
    /\ UNCHANGED <<cfg_vars, bg_vars, proc_vars, wal_vars, now, shards, get_req, count_vars,
                   codec_vars, snap_vars>>

\* The sweeper deletes the next popped key through engine.del.
SweepDel ==
    /\ phase = "serving"
    /\ to_delete # <<>>
    /\ LET r == engine_del(Engine(shards, ttl_queue), Head(to_delete), None)
       IN  shards' = r.engine.shards
    /\ set_count' = [set_count EXCEPT ![Head(to_delete)] = 0]
    /\ to_delete' = Tail(to_delete)
    /\ Forget
    /\ UNCHANGED <<cfg_vars, bg_vars, proc_vars, wal_vars, now, ttl_queue, get_req, ops, acked,
                   codec_vars, snap_vars>>

(***************************************************************************)
(* The snapshot manager's operations                                       *)
(***************************************************************************)
\* create_snapshot: the engine's state serialized into snapshot_<secs>.bin,
\* which replaces a file of that name.  The state written is kept with the
\* file as history.
CreateSnapshot ==
    /\ phase = "serving"
    /\ LET filename == snapshot_name(now)
           state == engine_snapshot(Engine(shards, ttl_queue))
       IN  \E rev \in BOOLEAN :
             snapshot_dir' = {f \in snapshot_dir : f.name # filename}
                               \cup {SnapshotFile(filename,
                                                  bincode_serialize(state, rev), state)}
    /\ Forget
    /\ UNCHANGED <<cfg_vars, bg_vars, proc_vars, wal_vars, engine_vars, count_vars, codec_vars>>

\* load_snapshot(engine, filename) on an engine no other task is using.
LoadSnapshot(filename) ==
    /\ phase = "serving"
    /\ get_req = None
    /\ to_delete = <<>>
    /\ LET r == load_snapshot(snapshot_dir, Engine(shards, ttl_queue), filename)
       IN  /\ shards' = r.engine.shards
           /\ load_res' = Some([filename |-> filename, result |-> r.result,
                                changed |-> (r.engine.shards # shards)])
    /\ get_res' = None
    /\ applied' = None
    /\ crash_img' = None
    /\ recovering' = FALSE
    /\ mut_res' = None
    /\ UNCHANGED <<cfg_vars, bg_vars, proc_vars, wal_vars, now, ttl_queue, to_delete, get_req,
                   count_vars, codec_vars, snap_vars>>

\* The points of write_all at which the process may stop: after the open
\* that truncated the file, and after the first eight bytes of the buffer.
WriteCuts == {0, 8}

\* create_snapshot in a process that is killed between the open of the
\* file and the end of write_all: the file, opened under its final name
\* and truncated, holds the bytes written so far.  The first eight bytes
\* are the number of shards, whatever order the maps iterate in.
CreateSnapshotCrash ==
    /\ phase = "serving"
    /\ LET filename == snapshot_name(now)
           state == engine_snapshot(Engine(shards, ttl_queue))
           serialized == bincode_serialize(state, FALSE)
       IN  \E n \in WriteCuts :
             snapshot_dir' = {f \in snapshot_dir : f.name # filename}
                               \cup {SnapshotFile(filename,
                                                  SubBytes(serialized, 0, n), state)}
    /\ phase' = "crashed"
    /\ crash_img' = Some(shards)
    /\ get_res' = None
    /\ applied' = None
    /\ recovering' = FALSE
    /\ mut_res' = None
    /\ load_res' = None
    /\ get_req' = None
    /\ to_delete' = <<>>
    /\ UNCHANGED <<cfg_vars, bg_vars, restarts, wal_vars, now, shards, ttl_queue, count_vars,
                   codec_vars>>

\* The shard counts of the engines whose snapshots the directory may hold
\* from runs under another StorageConfig.num_shards.
OtherShardCounts == {1, 3}

\* A snapshot file left in the directory by create_snapshot of an engine
\* that ran with n shards and held nothing.
EarlierSnapshot(n) ==
    /\ phase = "serving"
    /\ snapshot_dir = {}
    /\ LET state == [i \in 1..n |-> EmptyMap]
       IN  snapshot_dir' = {SnapshotFile(0, bincode_serialize(state, FALSE), state)}
    /\ Forget
    /\ UNCHANGED <<cfg_vars, bg_vars, proc_vars, wal_vars, engine_vars, count_vars, codec_vars>>

(***************************************************************************)
(* background/checkpoint.rs: the checkpoint task.  Each round creates a    *)
(* snapshot and then reads the WAL manager's offset; other tasks run       *)
(* between the two.                                                        *)
(***************************************************************************)
\* The sleep arm of the task's select: create_snapshot(&engine).  The
\* position of the WAL's handle at that moment is kept as history.
CheckpointSnapshot ==
    /\ phase = "serving"
    /\ IF checkpoint = None THEN TRUE ELSE IsSome(Unwrap(checkpoint).wal_offset)
    /\ LET filename == snapshot_name(now)
           state == engine_snapshot(Engine(shards, ttl_queue))
       IN  /\ \E rev \in BOOLEAN :
                snapshot_dir' = {f \in snapshot_dir : f.name # filename}
                                  \cup {SnapshotFile(filename,
                                                     bincode_serialize(state, rev), state)}
           /\ checkpoint' = Some([filename |-> filename, wal_offset |-> None,
                                  began |-> handle, records |-> Len(appended)])
    /\ Forget
    /\ UNCHANGED <<cfg_vars, conn_vars, mutex_vars, task_vars, repl_vars, shard_vars, proc_vars, wal_vars, engine_vars, count_vars,
                   codec_vars>>

\* The Ok arm after create_snapshot: wal.current_offset(), which is the
\* offset of the manager's handle in its current segment file.
CheckpointOffset ==
    /\ phase = "serving"
    /\ checkpoint # None
    /\ Unwrap(checkpoint).wal_offset = None
    /\ checkpoint' = Some([Unwrap(checkpoint) EXCEPT !.wal_offset = Some(handle.offset)])
    /\ UNCHANGED <<cfg_vars, conn_vars, mutex_vars, task_vars, repl_vars, shard_vars, proc_vars, wal_vars, engine_vars, hist_vars,
                   codec_vars, snap_vars>>

(***************************************************************************)
(* A replica connection: the peer's writes, and the handler's reads        *)
(***************************************************************************)
\* The records a peer sends: a Set and a Del laid out as deserialize reads
\* them, and a Set as WalEntry::serialize writes it.
WellFormedFrames ==
    { frame(le_record(WalEntry(U64(1), KeyA, <<120>>, U64(2), None, "Set"))),
      frame(le_record(WalEntry(U64(2), KeyA, <<>>, U64(1), None, "Del"))) }

ReplicaFrames ==
    WellFormedFrames
        \cup { frame(serialize(WalEntry(U64(1), KeyA, <<120>>, U64(2), None, "Set"))) }

\* listener.accept() and the spawn of handle_replica_connection with the
\* streamer's sync_mode.
ReplicaAccept ==
    /\ phase = "serving"
    /\ repl_conn = None
    /\ \E sync_mode \in BOOLEAN :
         repl_conn' = Some([sync_mode |-> sync_mode, open |-> TRUE, buffer |-> <<>>,
                            pos |-> 0, log |-> <<>>, frames |-> 0, panicked |-> FALSE])
    /\ repl_wire' = [bytes |-> <<>>, sent |-> 0, closed |-> FALSE, stream |-> <<>>, ends |-> <<>>]
    /\ UNCHANGED <<cfg_vars, conn_vars, mutex_vars, task_vars, ckpt_vars, shard_vars, proc_vars, wal_vars, engine_vars,
                   hist_vars, codec_vars, snap_vars>>

\* The peer writes one frame to the connection.
ReplicaSend(bytes) ==
    /\ repl_conn # None
    /\ ~repl_wire.closed
    /\ repl_wire.sent < MaxFrames
    /\ repl_wire' = [repl_wire EXCEPT !.bytes = @ \o bytes, !.sent = @ + 1,
                                      !.stream = @ \o bytes,
                                      !.ends = Append(@, Len(repl_wire.stream) + Len(bytes))]
    /\ UNCHANGED <<cfg_vars, conn_vars, mutex_vars, task_vars, ckpt_vars, shard_vars, repl_conn, proc_vars, wal_vars, engine_vars,
                   hist_vars, codec_vars, snap_vars>>

\* The peer closes the connection.
ReplicaPeerClose ==
    /\ repl_conn # None
    /\ ~repl_wire.closed
    /\ repl_wire' = [repl_wire EXCEPT !.closed = TRUE]
    /\ UNCHANGED <<cfg_vars, conn_vars, mutex_vars, task_vars, ckpt_vars, shard_vars, repl_conn, proc_vars, wal_vars, engine_vars,
                   hist_vars, codec_vars, snap_vars>>

\* How many bytes a read may return when n are waiting: all of them, or
\* fewer, ending inside a frame's size or inside its record.
ReadSizes(n) == {n} \cup {k \in {3, 12} : k < n}

\* The handler's state r after a round, stored: the engine's part in the
\* engine, the rest with the connection.  A panic ends the task, and the
\* stream is dropped with it.
ReplicaStore(r) ==
    /\ shards' = r.engine.shards
    /\ ttl_queue' = r.engine.queue
    /\ repl_conn' = Some([sync_mode |-> r.sync_mode, open |-> ~r.panicked,
                          buffer |-> r.buffer, pos |-> r.pos, log |-> r.log,
                          frames |-> r.frames, panicked |-> r.panicked])

\* The handler's state with the engine it works on.
ReplicaLoad(h, eng) ==
    [buffer |-> h.buffer, pos |-> h.pos, log |-> h.log, frames |-> h.frames,
     panicked |-> h.panicked, sync_mode |-> h.sync_mode, engine |-> eng]

\* stream.read returning n > 0 bytes, and the round of the handler's loop
\* that follows it.
ReplicaRead ==
    /\ phase = "serving"
    /\ repl_conn # None
    /\ Unwrap(repl_conn).open
    /\ repl_wire.bytes # <<>>
    /\ \E n \in ReadSizes(Len(repl_wire.bytes)) :
         /\ ReplicaStore(replica_round(ReplicaLoad(Unwrap(repl_conn),
                                                   Engine(shards, ttl_queue)),
                                       SubBytes(repl_wire.bytes, 0, n),
                                       Unwrap(repl_conn).sync_mode, now, overflow_checks))
         /\ repl_wire' = [repl_wire EXCEPT
                            !.bytes = SubBytes(@, n, Len(repl_wire.bytes))]
    /\ Forget
    /\ UNCHANGED <<cfg_vars, conn_vars, mutex_vars, task_vars, ckpt_vars, shard_vars, proc_vars, wal_vars, now, to_delete,
                   get_req, count_vars, codec_vars, snap_vars>>

\* stream.read returning Ok(0) after the peer closed: the handler returns
\* and its stream is dropped.
ReplicaEof ==
    /\ phase = "serving"
    /\ repl_conn # None
    /\ Unwrap(repl_conn).open
    /\ repl_wire.bytes = <<>>
    /\ repl_wire.closed
    /\ repl_conn' = Some([Unwrap(repl_conn) EXCEPT !.open = FALSE])
    /\ UNCHANGED <<cfg_vars, conn_vars, mutex_vars, task_vars, ckpt_vars, shard_vars, repl_wire, proc_vars, wal_vars, engine_vars,
                   hist_vars, codec_vars, snap_vars>>

(***************************************************************************)
(* storage/shard.rs under concurrent callers.  Every method takes the      *)
(* shard's parking_lot RwLock for its whole body: get, exists, len and     *)
(* snapshot as readers, set and del as the writer.  A write is in progress *)
(* from the moment the writer has the lock until it releases it; memory    *)
(* read by another thread during that time is a data race.                 *)
(***************************************************************************)
ShardReads == {"get", "exists", "len", "snapshot"}
ShardWrites == {"set", "del"}

\* A reader that does not wait for the writer.
read_lockable_always(lock) == TRUE

\* RwLock::read: granted while no writer holds the lock.
read_lockable(lock) == lock.writer = 0

\* RwLock::write: granted while nobody holds the lock.
write_lockable(lock) == lock.writer = 0 /\ lock.readers = {}

\* What a read method returns on the map it finds.
shard_read(op, map, key) ==
    CASE op = "get" -> shard_get(map, key)
      [] op = "exists" -> key \in DOMAIN map
      [] op = "len" -> Cardinality(DOMAIN map)
      [] op = "snapshot" -> map

\* The map after a write method.
shard_write(op, map, key, entry) ==
    IF op = "set" THEN shard_set(map, key, entry).map ELSE shard_del(map, key).map


\* A thread calls a method of the shard of key.  The maps the shard has
\* held since the call are kept with the call as history.
ShardCall(th, op, key, value) ==
    /\ phase = "serving"
    /\ ops < MaxOps
    /\ sh_thread[th] = Idle
    /\ sh_thread' = [sh_thread EXCEPT ![th] =
                       [pc |-> "waiting", op |-> op, key |-> key,
                        entry |-> KvEntry_new(value, None, now),
                        window |-> {shards[get_shard(key)]}]]
    /\ ops' = ops + 1
    /\ sh_res' = None
    /\ UNCHANGED <<cfg_vars, conn_vars, mutex_vars, task_vars, ckpt_vars, repl_vars, sh_lock, proc_vars, wal_vars,
                   engine_vars, acked, set_count, outcome_vars, codec_vars, snap_vars>>

\* self.map.read() or self.map.write() returns the guard.
ShardLock(th) ==
    /\ sh_thread[th].pc = "waiting"
    /\ IF sh_thread[th].op \in ShardWrites
       THEN /\ write_lockable(sh_lock)
            /\ sh_lock' = [sh_lock EXCEPT !.writer = th]
       ELSE /\ read_lockable(sh_lock)
            /\ sh_lock' = [sh_lock EXCEPT !.readers = @ \cup {th}]
    /\ sh_thread' = [sh_thread EXCEPT ![th].pc = "locked"]
    /\ sh_res' = None
    /\ UNCHANGED <<cfg_vars, conn_vars, mutex_vars, task_vars, ckpt_vars, repl_vars, proc_vars, wal_vars, engine_vars,
                   count_vars, outcome_vars, codec_vars, snap_vars>>

\* The writer's insert or remove is done and its guard is dropped.  The
\* new map joins the history of the calls in progress.
ShardWriteEnd(th) ==
    /\ sh_thread[th].pc = "locked"
    /\ sh_thread[th].op \in ShardWrites
    /\ LET c == sh_thread[th]
           i == get_shard(c.key)
           map == shard_write(c.op, shards[i], c.key, c.entry)
       IN  /\ shards' = [shards EXCEPT ![i] = map]
           /\ sh_thread' = [t \in DOMAIN sh_thread |->
                              IF t = th THEN Idle
                              ELSE IF sh_thread[t] = Idle THEN Idle
                              ELSE [sh_thread[t] EXCEPT !.window = @ \cup {map}]]
    /\ sh_lock' = [sh_lock EXCEPT !.writer = 0]
    /\ sh_res' = None
    /\ UNCHANGED <<cfg_vars, conn_vars, mutex_vars, task_vars, ckpt_vars, repl_vars, proc_vars, wal_vars, now, ttl_queue,
                   to_delete, get_req, count_vars, outcome_vars, codec_vars, snap_vars>>

\* The reader looks at the map, drops its guard and returns.  If a writer
\* is at work on the map at that moment the read is torn.
ShardReadEnd(th) ==
    /\ sh_thread[th].pc = "locked"
    /\ sh_thread[th].op \in ShardReads
    /\ LET c == sh_thread[th]
       IN  sh_res' = Some([op |-> c.op, key |-> c.key, window |-> c.window,
                           torn |-> (sh_lock.writer # 0),
                           value |-> shard_read(c.op, shards[get_shard(c.key)], c.key)])
    /\ sh_thread' = [sh_thread EXCEPT ![th] = Idle]
    /\ sh_lock' = [sh_lock EXCEPT !.readers = @ \ {th}]
    /\ UNCHANGED <<cfg_vars, conn_vars, mutex_vars, task_vars, ckpt_vars, repl_vars, proc_vars, wal_vars, engine_vars,
                   count_vars, outcome_vars, codec_vars, snap_vars>>

(***************************************************************************)
(* The background tasks and the two ways the program tells them to stop.   *)
(* The TTL sweep (storage/ttl.rs) and the WAL fsync task (wal/manager.rs)  *)
(* are loops around a sleep with no exit; the checkpoint task              *)
(* (background/checkpoint.rs) selects between its sleep and a oneshot      *)
(* receiver.  main starts no ReplicaStreamer, and WorkerManager::new       *)
(* leaves its replica field None.                                          *)
(***************************************************************************)
\* The task's sleep returns and its loop goes round once more.
TaskWake(t) ==
    /\ task[t].state = "running"
    /\ task' = [task EXCEPT ![t].rounds = 1 - @]
    /\ UNCHANGED <<cfg_vars, conn_vars, mutex_vars, ckpt_vars, repl_vars, shard_vars, signals, proc_vars, wal_vars,
                   engine_vars, hist_vars, codec_vars, snap_vars>>

\* WorkerManager::shutdown: shutdown() of the workers the manager holds.
\* CheckpointWorker::shutdown sends on the task's oneshot channel.
WorkerShutdown ==
    /\ "shutdown" \notin signals
    /\ signals' = signals \cup {"shutdown"}
    /\ UNCHANGED <<cfg_vars, conn_vars, mutex_vars, ckpt_vars, repl_vars, shard_vars, task, proc_vars, wal_vars,
                   engine_vars, hist_vars, codec_vars, snap_vars>>

\* The rx arm of the checkpoint task's select: break.
CheckpointExit ==
    /\ "shutdown" \in signals
    /\ task["checkpoint"].state = "running"
    /\ task' = [task EXCEPT !["checkpoint"].state = "stopped"]
    /\ UNCHANGED <<cfg_vars, conn_vars, mutex_vars, ckpt_vars, repl_vars, shard_vars, signals, proc_vars, wal_vars,
                   engine_vars, hist_vars, codec_vars, snap_vars>>

\* The owner's engine and WAL manager are dropped.  WalManager::drop
\* aborts the task in sync_task; the engine has no Drop and the sweep task
\* holds its own Arc of the engine and of the queue.
DropManagers ==
    /\ "drop" \notin signals
    /\ signals' = signals \cup {"drop"}
    /\ UNCHANGED <<cfg_vars, conn_vars, mutex_vars, ckpt_vars, repl_vars, shard_vars, task, proc_vars, wal_vars,
                   engine_vars, hist_vars, codec_vars, snap_vars>>

\* The aborted fsync task ends at its next await.
SyncAborted ==
    /\ "drop" \in signals
    /\ task["wal_fsync"].state = "running"
    /\ task' = [task EXCEPT !["wal_fsync"].state = "stopped"]
    /\ UNCHANGED <<cfg_vars, conn_vars, mutex_vars, ckpt_vars, repl_vars, shard_vars, signals, proc_vars, wal_vars,
                   engine_vars, hist_vars, codec_vars, snap_vars>>

(***************************************************************************)
(* connection/manager.rs: ConnectionManager.  A tracked connection is its  *)
(* ConnectionInfo: connected_at, priority and last_active, which is 0      *)
(* until touch is called.  The map's iteration order is not fixed, so a    *)
(* choice among equals may fall on any of them.                            *)
(***************************************************************************)
\* ConnectionInfo::new at instant t.
ConnectionInfo_new(t) == [connected_at |-> t, priority |-> 0, last_active |-> 0]

\* ConnectionInfo::idle_time when Instant::now().elapsed() reads e nanos.
idle_time(info, e) == IF info.last_active = 0 THEN 0 ELSE e - info.last_active

\* evict_oldest: min_by_key(connected_at).
evict_oldest(conns) ==
    {id \in DOMAIN conns :
        \A other \in DOMAIN conns : conns[id].connected_at <= conns[other].connected_at}

\* evict_by_idle_then_priority: the first after sorting by idle time,
\* largest first, and then by priority, lowest first.
evict_by_idle_then_priority(conns) ==
    {id \in DOMAIN conns :
        \A other \in DOMAIN conns :
            \/ idle_time(conns[id], 0) > idle_time(conns[other], 0)
            \/ /\ idle_time(conns[id], 0) = idle_time(conns[other], 0)
               /\ conns[id].priority <= conns[other].priority}

\* evict_by_priority_then_idle: the first after sorting by priority,
\* lowest first, and then by idle time, largest first.
evict_by_priority_then_idle(conns) ==
    {id \in DOMAIN conns :
        \A other \in DOMAIN conns :
            \/ conns[id].priority < conns[other].priority
            \/ /\ conns[id].priority = conns[other].priority
               /\ idle_time(conns[id], 0) >= idle_time(conns[other], 0)}

\* find_connection_to_evict: the connections the policy may name.
find_connection_to_evict(policy, conns) ==
    CASE policy = "idle_then_priority" -> evict_by_idle_then_priority(conns)
      [] policy = "fifo" -> evict_oldest(conns)
      [] policy = "priority_then_idle" -> evict_by_priority_then_idle(conns)
      [] OTHER -> evict_oldest(conns)

\* close_connection: the connection removed from the map.
close_connection(conns, id) == [c \in DOMAIN conns \ {id} |-> conns[c]]

\* ConnectionManager::new(config).
EvictPolicies == {"fifo", "idle_then_priority", "priority_then_idle"}
MaxConnectionsChoices == {1, 2}

ConnNew ==
    /\ conn_cfg = None
    /\ \E policy \in EvictPolicies, max \in MaxConnectionsChoices :
         conn_cfg' = Some([max_connections |-> max, evict_policy |-> policy])
    /\ UNCHANGED <<cfg_vars, mutex_vars, ckpt_vars, repl_vars, shard_vars, task_vars, connections,
                   conn_shard, conn_held, accepts, accept_res, proc_vars, wal_vars,
                   engine_vars, hist_vars, codec_vars, snap_vars>>

\* The map keeps its entries in shards, each behind a read-write lock; a
\* key's shard is fixed by its hash.
DashShards == {1, 2}

\* A write to a shard waits while a reference into that shard is alive.
shard_writable(held, shard) == shard \notin held

\* ConnectionManager::accept.  The new connection's id is fresh and its
\* connected_at is later than every earlier one.  A remove or an insert
\* that has to wait for a reference that is never dropped leaves the call
\* blocked where it stands.
ConnAccept ==
    /\ conn_cfg # None
    /\ accepts < MaxAccepts
    /\ LET cfg == Unwrap(conn_cfg)
           id == accepts + 1
           full == Cardinality(DOMAIN connections) >= cfg.max_connections
           candidates == find_connection_to_evict(cfg.evict_policy, connections)
       IN  IF full /\ candidates = {}
           THEN /\ UNCHANGED <<connections, conn_shard>>
                /\ accept_res' = Some([before |-> connections, evicted |-> 0, admitted |-> 0,
                                       result |-> "MaxConnectionsExceeded"])
           ELSE \E to_evict \in IF full THEN candidates ELSE {0}, shard \in DashShards :
                  IF to_evict # 0 /\ ~shard_writable(conn_held, conn_shard[to_evict])
                  THEN /\ UNCHANGED <<connections, conn_shard>>
                       /\ accept_res' = Some([before |-> connections, evicted |-> 0,
                                              admitted |-> 0, result |-> "Blocked"])
                  ELSE IF ~shard_writable(conn_held, shard)
                  THEN /\ connections' = close_connection(connections, to_evict)
                       /\ conn_shard' = close_connection(conn_shard, to_evict)
                       /\ accept_res' = Some([before |-> connections, evicted |-> to_evict,
                                              admitted |-> 0, result |-> "Blocked"])
                  ELSE /\ connections' =
                            [c \in (DOMAIN close_connection(connections, to_evict)) \cup {id} |->
                               IF c = id THEN ConnectionInfo_new(id) ELSE connections[c]]
                       /\ conn_shard' =
                            [c \in (DOMAIN close_connection(connections, to_evict)) \cup {id} |->
                               IF c = id THEN shard ELSE conn_shard[c]]
                       /\ accept_res' = Some([before |-> connections, evicted |-> to_evict,
                                              admitted |-> id, result |-> "Ok"])
    /\ accepts' = accepts + 1
    /\ UNCHANGED <<cfg_vars, mutex_vars, ckpt_vars, repl_vars, shard_vars, task_vars, conn_cfg, conn_held,
                   proc_vars, wal_vars, engine_vars, hist_vars, codec_vars, snap_vars>>

\* ConnectionManager::authenticate of a tracked connection: the reference
\* that get returned is alive while insert asks for the same shard's write
\* lock, so the insert never happens and the reference is never dropped.
Priorities == {50, 200}

ConnAuthenticate(id, priority) ==
    /\ conn_cfg # None
    /\ id \in DOMAIN connections
    /\ conn_held' = conn_held \cup {conn_shard[id]}
    /\ accept_res' = None
    /\ UNCHANGED <<cfg_vars, mutex_vars, ckpt_vars, repl_vars, shard_vars, task_vars, conn_cfg, accepts,
                   connections, conn_shard, proc_vars, wal_vars, engine_vars, hist_vars,
                   codec_vars, snap_vars>>

\* close_connection(id, ClientClosed), as the guard's drop asks for; the
\* remove goes through once the shard can be written.
ConnClose(id) ==
    /\ conn_cfg # None
    /\ id \in DOMAIN connections
    /\ shard_writable(conn_held, conn_shard[id])
    /\ connections' = close_connection(connections, id)
    /\ conn_shard' = close_connection(conn_shard, id)
    /\ accept_res' = None
    /\ UNCHANGED <<cfg_vars, mutex_vars, ckpt_vars, repl_vars, shard_vars, task_vars, conn_cfg, accepts,
                   conn_held, proc_vars, wal_vars, engine_vars, hist_vars, codec_vars,
                   snap_vars>>

(***************************************************************************)
(* storage/engine.rs and storage/ttl.rs, lock by lock.  A call of the      *)
(* engine is the sequence of the guards it takes: each shard method takes  *)
(* its shard's RwLock for its own body, TtlManager::add and the sweeper's  *)
(* pop block take the heap's Mutex.  Lock 0 is the heap's Mutex, lock i    *)
(* the RwLock of shard i.                                                  *)
(***************************************************************************)
HeapLock == 0
Section(lock, mode) == [lock |-> lock, mode |-> mode]

\* The guards of a shard method called once per element of keys.
RECURSIVE del_each(_)
del_each(keys) ==
    IF keys = <<>> THEN <<>>
    ELSE <<Section(get_shard(Head(keys)), "write")>> \o del_each(Tail(keys))

\* The guards of shard.snapshot() over self.shards.iter(), and of the
\* loop of load_from_snapshot, from shard i on.
RECURSIVE each_shard(_, _)
each_shard(i, mode) ==
    IF i > num_shards THEN <<>>
    ELSE <<Section(i, mode)>> \o each_shard(i + 1, mode)

\* The guards an engine call takes, in order.  more tells whether the call
\* goes past its first test: get found an expired entry, set was given a
\* TTL, exists found the key; popped are the keys the sweeper popped.
engine_locks(op, key, more, popped) ==
    CASE op = "get" ->
            <<Section(get_shard(key), "read")>>
                \o (IF more THEN <<Section(get_shard(key), "write")>> ELSE <<>>)
      [] op = "set" ->
            <<Section(get_shard(key), "write")>>
                \o (IF more THEN <<Section(HeapLock, "mutex")>> ELSE <<>>)
      [] op = "del" -> <<Section(get_shard(key), "write")>>
      [] op = "exists" ->
            <<Section(get_shard(key), "read")>>
                \o (IF more THEN <<Section(get_shard(key), "read")>> ELSE <<>>)
      [] op = "snapshot" -> each_shard(1, "read")
      [] op = "load_from_snapshot" -> each_shard(1, "write")
      [] op = "sweep" -> <<Section(HeapLock, "mutex")>> \o del_each(popped)

\* Guards that live until the call returns.
guard_dropped_at_return(op) == FALSE

\* Whether the guard of a section is dropped when the section ends: every
\* guard is a local of a shard method, of add, of the sweeper's block or
\* of one iteration of load_from_snapshot's loop.
guard_dropped(op) == TRUE

\* Whether a task may take the lock of section s now.
lockable(s, shard_locks, heap_lock) ==
    CASE s.mode = "mutex" -> heap_lock = 0
      [] s.mode = "read" -> shard_locks[s.lock].writer = 0
      [] s.mode = "write" ->
            shard_locks[s.lock].writer = 0 /\ shard_locks[s.lock].readers = {}

EngineOps == {"get", "set", "del", "exists", "snapshot", "load_from_snapshot", "sweep"}
PoppedKeys == {<<>>, <<KeyA>>, <<KeyB, KeyA>>}

\* A task calls the engine, or the sweeper wakes up.
LockCall(th, op, key, more, popped) ==
    /\ lk_task[th].op = "idle"
    /\ lk_task' = [lk_task EXCEPT ![th] =
                      [op |-> op, holding |-> {}, inside |-> FALSE,
                       todo |-> engine_locks(op, key, more, popped)]]
    /\ UNCHANGED <<cfg_vars, ckpt_vars, repl_vars, shard_vars, task_vars, conn_vars, ap_vars,
                   lk_shard, lk_queue, proc_vars, wal_vars, engine_vars, hist_vars,
                   codec_vars, snap_vars>>

\* The task takes the lock of its next section.
LockTake(th) ==
    /\ lk_task[th].op # "idle"
    /\ ~lk_task[th].inside
    /\ LET s == Head(lk_task[th].todo)
       IN  /\ lockable(s, lk_shard, lk_queue)
           /\ lk_task' = [lk_task EXCEPT ![th].inside = TRUE,
                                         ![th].holding = @ \cup {s}]
           /\ lk_queue' = IF s.mode = "mutex" THEN th ELSE lk_queue
           /\ lk_shard' =
                CASE s.mode = "read" -> [lk_shard EXCEPT ![s.lock].readers = @ \cup {th}]
                  [] s.mode = "write" -> [lk_shard EXCEPT ![s.lock].writer = th]
                  [] OTHER -> lk_shard
    /\ UNCHANGED <<cfg_vars, ckpt_vars, repl_vars, shard_vars, task_vars, conn_vars, ap_vars,
                   proc_vars, wal_vars, engine_vars, hist_vars, codec_vars, snap_vars>>

\* The locks after a task has dropped the guards in gone.
locks_released(shard_locks, th, gone) ==
    [i \in DOMAIN shard_locks |->
        [writer |-> IF \E s \in gone : s.lock = i /\ s.mode = "write"
                    THEN 0 ELSE shard_locks[i].writer,
         readers |-> IF \E s \in gone : s.lock = i /\ s.mode = "read"
                     THEN shard_locks[i].readers \ {th} ELSE shard_locks[i].readers]]

\* The section ends; the call returns after its last section, and every
\* guard still alive is dropped with it.
LockEnd(th) ==
    /\ lk_task[th].op # "idle"
    /\ lk_task[th].inside
    /\ LET t == lk_task[th]
           last == Len(t.todo) = 1
           gone == IF last THEN t.holding
                   ELSE IF guard_dropped(t.op) THEN {Head(t.todo)} ELSE {}
       IN  /\ lk_shard' = locks_released(lk_shard, th, gone)
           /\ lk_queue' = IF \E s \in gone : s.mode = "mutex" THEN 0 ELSE lk_queue
           /\ lk_task' = [lk_task EXCEPT ![th] =
                             IF last THEN NoCall
                             ELSE [op |-> t.op, holding |-> t.holding \ gone,
                                   inside |-> FALSE, todo |-> Tail(t.todo)]]
    /\ UNCHANGED <<cfg_vars, ckpt_vars, repl_vars, shard_vars, task_vars, conn_vars, ap_vars,
                   proc_vars, wal_vars, engine_vars, hist_vars, codec_vars, snap_vars>>

(***************************************************************************)
(* WalManager::append called by several tasks at once, statement by        *)
(* statement                                                               *)
(***************************************************************************)
\* A current_file that lets every caller in.
mutex_free_always(lock) == TRUE

\* self.current_file.lock().await returns when no other task holds the
\* guard.
mutex_free(lock) == lock = 0

\* write_all loops over write; each write takes the rest of the buffer or
\* only its first HeaderLen bytes.
ChunkLens(rest) == {rest} \cup {k \in {HeaderLen} : k < rest}

\* append is called: entry.serialize() runs before the lock is asked for.
ApCall(th, entry) ==
    /\ phase = "serving"
    /\ append_calls < MaxAppends
    /\ ap_thread[th] = Idle
    /\ ap_thread' = [ap_thread EXCEPT ![th] =
                        [pc |-> "lock", entry |-> entry, written |-> 0,
                         seq |-> 0, entry_offset |-> 0]]
    /\ append_calls' = append_calls + 1
    /\ replay_out' = None
    /\ UNCHANGED <<cfg_vars, proc_vars, wal_dir, handle, appended, damage, torn, engine_vars,
                   hist_vars, codec_vars, snap_vars, ckpt_vars, repl_vars, shard_vars,
                   task_vars, conn_vars, lock_vars, ap_lock, append_err>>

\* The guard is handed to the caller, which then runs the rotation check.
ApLock(th) ==
    /\ ap_thread[th].pc = "lock"
    /\ mutex_free(ap_lock)
    /\ ap_lock' = th
    /\ LET o == append_open(wal_dir, handle, serialized_of(ap_thread[th].entry))
       IN  /\ wal_dir' = o.dir
           /\ handle' = o.handle
    /\ ap_thread' = [ap_thread EXCEPT ![th].pc = "write"]
    /\ UNCHANGED <<cfg_vars, proc_vars, appended, append_calls, replay_out, damage, torn,
                   engine_vars, hist_vars, codec_vars, snap_vars, ckpt_vars, repl_vars,
                   shard_vars, task_vars, conn_vars, lock_vars, append_err>>

\* One write of write_all's loop: the file is opened with append(true), so
\* the bytes go to the end of the file the handle points to.
ApWrite(th) ==
    /\ ap_thread[th].pc = "write"
    /\ LET t == ap_thread[th]
           serialized == serialized_of(t.entry)
           f == wal_dir[handle.seq]
       IN  \E n \in ChunkLens(Len(serialized) - t.written) :
             /\ wal_dir' = [wal_dir EXCEPT ![handle.seq] =
                               File(f.data \o SubBytes(serialized, t.written, t.written + n),
                                    f.synced)]
             /\ ap_thread' = [ap_thread EXCEPT ![th] =
                                 [t EXCEPT !.written = t.written + n,
                                           !.pc = IF t.written + n = Len(serialized)
                                                  THEN "advance" ELSE "write"]]
    /\ UNCHANGED <<cfg_vars, proc_vars, handle, appended, append_calls, replay_out, damage,
                   torn, engine_vars, hist_vars, codec_vars, snap_vars, ckpt_vars, repl_vars,
                   shard_vars, task_vars, conn_vars, lock_vars, ap_lock, append_err>>

\* entry_offset = handle.offset; handle.offset += len; sync_all under
\* EveryWrite.
ApAdvance(th) ==
    /\ ap_thread[th].pc = "advance"
    /\ LET t == ap_thread[th]
           f == wal_dir[handle.seq]
       IN  /\ ap_thread' = [ap_thread EXCEPT ![th] =
                               [t EXCEPT !.pc = "return", !.seq = handle.seq,
                                         !.entry_offset = handle.offset]]
           /\ handle' = [handle EXCEPT !.offset = handle.offset + t.written]
           /\ wal_dir' = [wal_dir EXCEPT ![handle.seq] =
                             File(f.data,
                                  sync_if_every_write(sync_policy, Len(f.data), f.synced))]
    /\ UNCHANGED <<cfg_vars, proc_vars, appended, append_calls, replay_out, damage, torn,
                   engine_vars, hist_vars, codec_vars, snap_vars, ckpt_vars, repl_vars,
                   shard_vars, task_vars, conn_vars, lock_vars, ap_lock, append_err>>

\* Ok(entry_offset): the guard is dropped as append returns.
ApReturn(th) ==
    /\ ap_thread[th].pc = "return"
    /\ LET t == ap_thread[th]
       IN  appended' = Append(appended, [entry |-> t.entry, seq |-> t.seq,
                                         offset |-> t.entry_offset, len |-> t.written])
    /\ ap_lock' = IF ap_lock = th THEN 0 ELSE ap_lock
    /\ ap_thread' = [ap_thread EXCEPT ![th] = Idle]
    /\ UNCHANGED <<cfg_vars, proc_vars, wal_dir, handle, append_calls, replay_out, damage,
                   torn, engine_vars, hist_vars, codec_vars, snap_vars, ckpt_vars, repl_vars,
                   shard_vars, task_vars, conn_vars, lock_vars, append_err>>

(***************************************************************************)
(* The codec on its own                                                    *)
(***************************************************************************)
CodecSerialize ==
    /\ codec_rec = None
    /\ \E e \in CodecEntries :
         /\ codec_rec' = Some(e)
         /\ codec_buf' = serialize(e)
    /\ codec_out' = None
    /\ codec_altered' = FALSE
    /\ UNCHANGED <<cfg_vars, bg_vars, proc_vars, wal_vars, engine_vars, hist_vars, snap_vars>>

CodecAlter ==
    /\ ~codec_altered
    /\ codec_out = None
    /\ \E pos \in 1..Len(codec_buf) :
         /\ codec_buf[pos] # NewByte
         /\ codec_buf' = [codec_buf EXCEPT ![pos] = NewByte]
    /\ codec_altered' = TRUE
    /\ UNCHANGED <<cfg_vars, bg_vars, proc_vars, wal_vars, engine_vars, hist_vars, snap_vars, codec_rec,
                   codec_out>>

CodecDeserialize ==
    /\ codec_rec # None
    /\ codec_out = None
    /\ codec_out' = Some(deserialize(codec_buf, overflow_checks))
    /\ UNCHANGED <<cfg_vars, bg_vars, proc_vars, wal_vars, engine_vars, hist_vars, snap_vars, codec_rec,
                   codec_buf, codec_altered>>

(***************************************************************************)
(* Specifications                                                          *)
(***************************************************************************)
\* The server as main runs it.
Next ==
    \/ \E k \in ClientKeys, v \in Values, ttl \in TtlChoices : ClientSet(k, v, ttl)
    \/ \E k \in ClientKeys : ClientDel(k)
    \/ \E k \in Keys : GetBegin(k)
    \/ GetFinish
    \/ \E e \in WalEntries : ReplicaApply(e)
    \/ Tick
    \/ SweepPop
    \/ SweepDel
    \/ Crash
    \/ Main

Spec == Init /\ [][Next]_vars

\* The engine driven through its public operations, as its tests drive it.
EngineNext ==
    \/ \E k \in ClientKeys, v \in Values, ttl \in TtlChoices : ClientSet(k, v, ttl)
    \/ \E k \in ClientKeys, ev \in ExpectedVersions : EngineDel(k, ev)
    \/ \E k \in Keys : GetBegin(k)
    \/ GetFinish
    \/ Tick
    \/ SweepPop
    \/ SweepDel

EngineSpec == Init /\ [][EngineNext]_vars

\* The snapshot manager over an engine that clients write to between
\* snapshots.
SnapshotNames == {snapshot_name(t) : t \in Instants \cup {0}}

SnapshotNext ==
    \/ \E k \in ClientKeys, v \in Values, ttl \in TtlChoices : ClientSet(k, v, ttl)
    \/ \E k \in ClientKeys : ClientDel(k)
    \/ Tick
    \/ CreateSnapshot
    \/ \E f \in SnapshotNames : LoadSnapshot(f)

SnapshotSpec == Init /\ [][SnapshotNext]_vars

\* The snapshot manager across a restart: snapshots are taken, a process
\* may die while it writes one, and files are loaded after main started
\* again.  The directory may hold a file from a run with another number
\* of shards.
RestoreNext ==
    \/ \E k \in ClientKeys, v \in Values, ttl \in TtlChoices : ClientSet(k, v, ttl)
    \/ CreateSnapshot
    \/ CreateSnapshotCrash
    \/ Main
    \/ \E n \in OtherShardCounts : EarlierSnapshot(n)
    \/ \E f \in SnapshotNames : LoadSnapshot(f)

RestoreSpec == Init /\ [][RestoreNext]_vars

\* The checkpoint task beside clients of the engine and callers of the
\* WAL manager's append.
CheckpointNext ==
    \/ \E k \in ClientKeys, v \in Values, ttl \in TtlChoices : ClientSet(k, v, ttl)
    \/ \E e \in AppendEntries : WalAppend(e)
    \/ CheckpointSnapshot
    \/ CheckpointOffset

CheckpointSpec == Init /\ [][CheckpointNext]_vars

\* One replica connection and its peer.
ReplicaNext ==
    \/ ReplicaAccept
    \/ \E b \in ReplicaFrames : ReplicaSend(b)
    \/ ReplicaPeerClose
    \/ ReplicaRead
    \/ ReplicaEof

ReplicaSpec == Init /\ [][ReplicaNext]_vars

\* Two threads calling the methods of one shard.
ShardNext ==
    \/ \E th \in ShardThreads, op \in ShardReads \cup ShardWrites, k \in ClientKeys,
          v \in Values : ShardCall(th, op, k, v)
    \/ \E th \in ShardThreads : ShardLock(th)
    \/ \E th \in ShardThreads : ShardWriteEnd(th)
    \/ \E th \in ShardThreads : ShardReadEnd(th)

ShardSpec == Init /\ [][ShardNext]_vars

\* The background tasks of a server under EveryMs, its clients, and the
\* shutdown signals.  Every task's loop keeps being scheduled, and a task
\* that has been told to stop gets to act on it.
ShutdownNext ==
    \/ \E k \in ClientKeys, v \in Values, ttl \in TtlChoices : ClientSet(k, v, ttl)
    \/ \E t \in TaskNames : TaskWake(t)
    \/ WorkerShutdown
    \/ CheckpointExit
    \/ DropManagers
    \/ SyncAborted

ShutdownSpec ==
    /\ SyncInit
    /\ [][ShutdownNext]_vars
    /\ \A t \in TaskNames : WF_vars(TaskWake(t))
    /\ WF_vars(CheckpointExit)
    /\ WF_vars(SyncAborted)

\* The engine under clients whose sets may ask for a TTL of 0 seconds, as
\* SetRequest.ttl: Option<u64> lets them.
TtlRequests == {None, Some(0), Some(1)}

ExpiryNext ==
    \/ \E k \in ClientKeys, v \in Values, ttl \in TtlRequests : ClientSet(k, v, ttl)
    \/ \E k \in ClientKeys : ClientDel(k)
    \/ \E k \in Keys : GetBegin(k)
    \/ GetFinish
    \/ Tick

ExpirySpec == Init /\ [][ExpiryNext]_vars

\* A connection manager under accept, authenticate and close calls, one
\* at a time.
ConnIds == 1..MaxAccepts

ConnNext ==
    \/ ConnNew
    \/ ConnAccept
    \/ \E id \in ConnIds, p \in Priorities : ConnAuthenticate(id, p)
    \/ \E id \in ConnIds : ConnClose(id)

ConnSpec == Init /\ [][ConnNext]_vars

\* The storage layer's locks under two tasks calling the engine.
LockNext ==
    \/ \E th \in LockTasks, op \in EngineOps, key \in Keys, more \in BOOLEAN,
          popped \in PoppedKeys : LockCall(th, op, key, more, popped)
    \/ \E th \in LockTasks : LockTake(th)
    \/ \E th \in LockTasks : LockEnd(th)

LockSpec == Init /\ [][LockNext]_vars

\* The engine with its sweeper in a process that keeps running: the sweep
\* task wakes every 100 ms, so its pop runs whenever an event is due, and
\* its loop over the popped keys runs to its end, so the popped keys are
\* all deleted again and again (weak fairness of SweepDel, which is
\* enabled exactly while to_delete is not empty).
TtlEntries == {e \in WalEntries : IsSome(e.ttl)}

SweepNext ==
    \/ \E k \in ClientKeys, v \in Values, ttl \in TtlChoices : ClientSet(k, v, ttl)
    \/ \E e \in TtlEntries : ReplicaApply(e)
    \/ Tick
    \/ SweepPop
    \/ SweepDel
    \/ CreateSnapshot
    \/ \E f \in SnapshotNames : LoadSnapshot(f)

SweepSpec ==
    Init /\ [][SweepNext]_vars /\ WF_vars(SweepPop) /\ []<>(to_delete = <<>>)

\* Two tasks calling append at the same time.
ConcNext ==
    \/ \E th \in AppendThreads, e \in AppendEntries : ApCall(th, e)
    \/ \E th \in AppendThreads : ApLock(th)
    \/ \E th \in AppendThreads : ApWrite(th)
    \/ \E th \in AppendThreads : ApAdvance(th)
    \/ \E th \in AppendThreads : ApReturn(th)

ConcSpec == AppendInit /\ [][ConcNext]_vars

\* Every operation that puts entries into the shard maps or takes them
\* out: the clients' set and del, the replica's apply_wal_entry, and
\* load_snapshot of the files the directory can hold.
PlaceNext ==
    \/ \E k \in ClientKeys, v \in Values, ttl \in TtlChoices : ClientSet(k, v, ttl)
    \/ \E k \in ClientKeys : ClientDel(k)
    \/ \E e \in WalEntries : ReplicaApply(e)
    \/ CreateSnapshot
    \/ \E n \in OtherShardCounts : EarlierSnapshot(n)
    \/ \E f \in SnapshotNames : LoadSnapshot(f)

PlaceSpec == Init /\ [][PlaceNext]_vars

\* The WAL manager when the file system may fail an append's open, write
\* or fsync.
FailNext ==
    \/ \E e \in AppendEntries : WalAppend(e)
    \/ \E e \in AppendEntries : WalAppendTorn(e)
    \/ \E e \in AppendEntries : WalAppendOpenFails(e)
    \/ \E e \in AppendEntries : WalAppendSyncFails(e)
    \/ WalReplay

FailSpec == AppendInit /\ [][FailNext]_vars

\* The replica connection applying Set records, with and without a ttl,
\* beside the clock and the sweeper.  A ttl field of 0 on the wire reaches
\* apply_wal_entry as None (WalEntry::deserialize).
ApplyEntries ==
    { WalEntry(U64(1), k, <<120>>, U64(1), ttl, "Set") :
        k \in Keys, ttl \in {None, Some(U64(1))} }

ApplyNext ==
    \/ \E e \in ApplyEntries : ReplicaApply(e)
    \/ Tick
    \/ SweepPop
    \/ SweepDel

ApplySpec == Init /\ [][ApplyNext]_vars

\* The WAL manager driven through its public operations.
WalNext ==
    \/ \E e \in AppendEntries : WalAppend(e)
    \/ \E e \in AppendEntries : WalAppendTorn(e)
    \/ WalSync
    \/ WalReplay
    \/ Crash
    \/ Main

WalSpec == WalInit /\ [][WalNext]_vars

\* The WAL manager when every write to the segment file succeeds.
AppendNext ==
    \/ \E e \in AppendEntries : WalAppend(e)
    \/ WalSync
    \/ WalReplay
    \/ Crash
    \/ Main

AppendSpec == AppendInit /\ [][AppendNext]_vars

\* The WAL manager under EveryMs in a process that keeps running: the
\* background task wakes every interval and calls sync, so sync runs
\* whenever it has something to do.
SyncNext ==
    \/ \E e \in AppendEntries : WalAppend(e)
    \/ WalSync
    \/ WalReplay

SyncSpec == SyncInit /\ [][SyncNext]_vars /\ WF_vars(WalSync)

\* The WAL manager over segment files damaged from outside.
CorruptNext ==
    \/ \E e \in AppendEntries : WalAppend(e)
    \/ AlterByte
    \/ WalReplay
    \/ Crash
    \/ Main

CorruptSpec == CodecInit /\ [][CorruptNext]_vars

\* The record codec.
CodecNext ==
    \/ CodecSerialize
    \/ CodecAlter
    \/ CodecDeserialize

CodecSpec == CodecInit /\ [][CodecNext]_vars

(***************************************************************************)
(* Properties                                                              *)
(***************************************************************************)
\* The record append returned Ok for, matching an acknowledged mutation.
RecordOf(ack, a) ==
    /\ a.entry.op_type = ack.op
    /\ a.entry.key = ack.key
    /\ ack.op = "Set" => a.entry.value = ack.value

\* The bytes of an appended record are in its segment file and fsynced.
Durable(a) ==
    /\ wal_dir[a.seq].synced >= a.offset + a.len
    /\ SubBytes(wal_dir[a.seq].data, a.offset, a.offset + a.len) = serialize(a.entry)

\* C1: under EveryWrite, every set or del reported successful to a client
\* has a record in the WAL that is intact and fsynced, at every moment
\* after the success, a crash included.
C1_AckedMutationIsDurable ==
    (sync_policy = "EveryWrite" /\ acked # None) =>
        \E i \in 1..Len(appended) :
            RecordOf(Unwrap(acked), appended[i]) /\ Durable(appended[i])

\* C2: right after a restart that follows a crash, a key whose set was the
\* last acknowledged mutation, and which the engine held unexpired when it
\* crashed, is held again with the same value.
C2_RestartRestoresAckedKey ==
    (recovering /\ acked # None /\ crash_img # None) =>
        LET ack == Unwrap(acked)
            before == Lookup(Unwrap(crash_img), ack.key)
            after == Lookup(shards, ack.key)
        IN  (ack.op = "Set" /\ IsSome(before) /\ Unwrap(before).value = ack.value
               /\ ~(IsSome(Unwrap(before).expires_at)
                      /\ now > Unwrap(Unwrap(before).expires_at)))
            => (IsSome(after) /\ Unwrap(after).value = ack.value)

\* C3: the version stored for a key is the number of sets of that key
\* since it was last absent: 1 for the first, one more for each overwrite.
C3_VersionCountsSets ==
    \A k \in Keys : Present(k) => shards[get_shard(k)][k].version = set_count[k]

\* An entry's expires_at is strictly before clock reading t.
PastExpiry(entry, t) == IsSome(entry.expires_at) /\ t > Unwrap(entry.expires_at)

\* C4: a get that returns an entry returns one whose expires_at the clock
\* has not passed at the return, and a get that read an entry whose
\* expires_at the clock has passed reports KeyNotFound.
C4_GetNeverReturnsExpired ==
    get_res # None =>
        LET r == Unwrap(get_res)
        IN  /\ r.status = "Ok" => (IsSome(r.entry) /\ ~PastExpiry(Unwrap(r.entry), r.at))
            /\ (IsSome(r.seen) /\ PastExpiry(Unwrap(r.seen), r.at)) => r.status = "KeyNotFound"

\* A get found the entry still in the shard after its expiry and reported
\* KeyNotFound.
C4_Witness ==
    /\ get_res # None
    /\ IsSome(Unwrap(get_res).seen)
    /\ PastExpiry(Unwrap(Unwrap(get_res).seen), Unwrap(get_res).at)
    /\ Unwrap(get_res).status = "KeyNotFound"

\* C5: deserialize of the bytes serialize produced succeeds, consumes all
\* of them and yields the record that was serialized.
C5_RoundTrip ==
    (codec_out # None /\ ~codec_altered) =>
        Unwrap(codec_out) = Ok(Unwrap(codec_rec), Len(codec_buf))

\* The altered byte lies in the header, key or value of an appended record
\* of segment seq (not in its checksum).
DamagedRecords ==
    IF damage = None THEN {}
    ELSE {i \in 1..Len(appended) :
            /\ appended[i].seq = Unwrap(damage).seq
            /\ appended[i].offset <= Unwrap(damage).pos
            /\ Unwrap(damage).pos < appended[i].offset + appended[i].len - 4}

\* C6: when one byte of the body of a record in the manager's segment has
\* been altered, replay_from returns ChecksumMismatch.
C6_AlteredByteIsChecksumMismatch ==
    (replay_out # None /\ DamagedRecords # {} /\ Unwrap(damage).seq = handle.seq) =>
        Unwrap(replay_out).result.tag = "ChecksumMismatch"

\* The callback's calls for the records of appended whose index is in S.
Delivered(S) ==
    LET RECURSIVE seq_of(_)
        seq_of(i) ==
            IF i > Len(appended) THEN <<>>
            ELSE (IF i \in S
                  THEN <<[offset |-> appended[i].offset, entry |-> appended[i].entry]>>
                  ELSE <<>>) \o seq_of(i + 1)
    IN  seq_of(1)

\* C7: when every append of the manager succeeded, replay_from(0) returns
\* Ok having called the callback once per appended record, in append
\* order, with the offset append returned.
C7_ReplayDeliversEveryRecord ==
    (replay_out # None /\ torn = None /\ restarts = 0) =>
        /\ Unwrap(replay_out).result.tag = "Ok"
        /\ Unwrap(replay_out).calls = Delivered(1..Len(appended))

\* The torn append was the last write to the manager's segment.
TornTail ==
    /\ torn # None
    /\ Unwrap(torn).seq = handle.seq
    /\ \A i \in 1..Len(appended) :
         appended[i].seq = handle.seq => i <= Unwrap(torn).after

\* C8: when the manager's segment ends in a partial record, replay_from
\* returns Ok having delivered the records before it, and leaves the
\* segment ending where the partial record began.
C8_TornTailIsTolerated ==
    (replay_out # None /\ TornTail /\ restarts = 0) =>
        /\ Unwrap(replay_out).result.tag = "Ok"
        /\ Unwrap(replay_out).calls =
             Delivered({i \in 1..Len(appended) : appended[i].seq = handle.seq})
        /\ Len(wal_dir[handle.seq].data) = Unwrap(torn).at

\* C9: when a record that has another one after it in the log is damaged,
\* replay_from returns an error without calling the callback for that
\* record or a later one, and a restarted process does not come to serve.
C9_MidLogCorruptionIsFatal ==
    (\E i \in DamagedRecords : i < Len(appended)) =>
        /\ (replay_out # None /\ Unwrap(damage).seq = handle.seq) =>
              /\ Unwrap(replay_out).result.tag # "Ok"
              /\ \A j \in 1..Len(Unwrap(replay_out).calls) :
                   \A i \in DamagedRecords :
                       Unwrap(replay_out).calls[j].offset < appended[i].offset
        /\ restarts > 0 => phase # "serving"

\* C10: after apply_wal_entry has applied a Set, Incr or Cas record the
\* stored entry has the record's value and the record's version.
C10_ApplyAdoptsRecordVersion ==
    (applied # None /\ Unwrap(applied).entry.op_type \in {"Set", "Incr", "Cas"}
       /\ Unwrap(applied).result = "Ok") =>
        /\ IsSome(Unwrap(applied).stored)
        /\ Unwrap(Unwrap(applied).stored).value = Unwrap(applied).entry.value
        /\ Unwrap(Unwrap(applied).stored).version = AsNat(Unwrap(applied).entry.version)

\* C11: a Set or Del record is applied without error, and applying the
\* same record a second time succeeds again and leaves every shard as the
\* first application left it; a Del of an absent key is such a case.
C11_ReapplyingIsIdempotent ==
    (applied # None /\ Unwrap(applied).entry.op_type \in {"Set", "Del"}) =>
        LET again == apply_wal_entry(Engine(shards, ttl_queue), Unwrap(applied).entry, now)
        IN  /\ Unwrap(applied).result = "Ok"
            /\ again.result = "Ok"
            /\ again.engine.shards = shards

\* C12: the entry stored for a record does not depend on the clock: an
\* engine that starts empty and applies the same record at any other clock
\* reading stores the same entry, with the same version, created_at and
\* expires_at.
C12_ReplayIsDeterministic ==
    (applied # None /\ IsSome(Unwrap(applied).stored)) =>
        \A t \in Instants :
            Lookup(apply_wal_entry(engine_new, Unwrap(applied).entry, t).engine.shards,
                   Unwrap(applied).entry.key) = Unwrap(applied).stored

\* C13: when the sweeper removes the entry of a popped key, that entry
\* carries an expiry that has come: an entry rewritten without a TTL, or
\* with an expiry still ahead, is not removed by the sweeper.
C13_SweeperSkipsStaleEvents ==
    [][(to_delete # <<>> /\ to_delete' = Tail(to_delete) /\ phase' = "serving") =>
          LET live == Lookup(shards, Head(to_delete))
          IN  (IsSome(live) /\ Lookup(shards', Head(to_delete)) = None) =>
                  /\ IsSome(Unwrap(live).expires_at)
                  /\ Unwrap(Unwrap(live).expires_at) <= now]_vars

\* C14: a del called with an expected version that differs from the
\* version of the entry the shard holds fails with the version-mismatch
\* error (CasFailed) and leaves that entry in the shard as it was.
C14_DelChecksExpectedVersion ==
    (mut_res # None /\ ~Unwrap(mut_res).followed /\ Unwrap(mut_res).op = "Del"
       /\ IsSome(Unwrap(mut_res).expected) /\ IsSome(Unwrap(mut_res).old)
       /\ Unwrap(Unwrap(mut_res).expected) # Unwrap(Unwrap(mut_res).old).version) =>
        /\ Unwrap(mut_res).result = "CasFailed"
        /\ Lookup(shards, Unwrap(mut_res).key) = Unwrap(mut_res).old

\* A get of the key of the last set or del began right after it and has
\* returned, no other operation having run in between.
GetFollowed ==
    /\ mut_res # None
    /\ Unwrap(mut_res).followed
    /\ get_res # None
    /\ Unwrap(get_res).key = Unwrap(mut_res).key

\* C15: del(key, None) of a present key returns Ok and a get that follows
\* it returns KeyNotFound; del(key, None) of an absent key returns
\* KeyNotFound and leaves every shard as it was; a get that follows a set,
\* before the TTL given to the set has run out, returns the value set.
C15_SetGetDel ==
    (mut_res # None /\ Unwrap(mut_res).expected = None) =>
        LET m == Unwrap(mut_res)
        IN  /\ (m.op = "Del" /\ IsSome(m.old)) => m.result = "Ok"
            /\ (m.op = "Del" /\ m.old = None) => (m.result = "KeyNotFound" /\ m.same)
            /\ (m.op = "Del" /\ m.result = "Ok" /\ GetFollowed) =>
                   Unwrap(get_res).status = "KeyNotFound"
            /\ (m.op = "Set" /\ GetFollowed /\ IsSome(Unwrap(get_res).seen)
                   /\ ~PastExpiry(Unwrap(Unwrap(get_res).seen), Unwrap(get_res).at)) =>
                   /\ Unwrap(get_res).status = "Ok"
                   /\ Unwrap(Unwrap(get_res).entry).value = m.value
            /\ (m.op = "Set" /\ GetFollowed) => IsSome(Unwrap(get_res).seen)

\* A del removed a present key and the get that followed it has reported
\* KeyNotFound.
C15_Witness ==
    /\ GetFollowed
    /\ Unwrap(mut_res).op = "Del"
    /\ Unwrap(mut_res).expected = None
    /\ IsSome(Unwrap(mut_res).old)
    /\ Unwrap(mut_res).result = "Ok"
    /\ Unwrap(get_res).status = "KeyNotFound"

C17_StartupReopensLastSegment ==
    [][(phase = "crashed" /\ phase' = "serving") =>
          /\ Len(wal_dir) > 0 =>
                /\ wal_dir' = wal_dir
                /\ handle'.seq = Len(wal_dir)
                /\ handle'.offset = Len(wal_dir[Len(wal_dir)].data)
                /\ appended # <<>> => appended[Len(appended)].seq = handle'.seq
          /\ Len(wal_dir) = 0 => handle'.seq = 1]_vars

\* C18: under EveryWrite the bytes of every record append returned Ok for
\* are fsynced in the record's segment file when append returns and from
\* then on; under Never nothing of any segment file is ever fsynced.
C18_SyncFollowsPolicy ==
    /\ sync_policy = "EveryWrite" =>
          \A i \in 1..Len(appended) :
              wal_dir[appended[i].seq].synced >= appended[i].offset + appended[i].len
    /\ sync_policy = "Never" =>
          \A seq \in 1..Len(wal_dir) : wal_dir[seq].synced = 0

\* Under EveryWrite two appends have returned Ok, the second into the
\* bytes after the first.
C18_Witness ==
    /\ sync_policy = "EveryWrite"
    /\ phase = "serving"
    /\ Len(appended) = 2
    /\ appended[2].offset > 0
    /\ wal_dir[appended[2].seq].synced = appended[2].offset + appended[2].len

\* The i-th record append returned Ok for is fsynced in its segment file.
RecordSynced(i) ==
    /\ Len(appended) >= i
    /\ wal_dir[appended[i].seq].synced >= appended[i].offset + appended[i].len

\* C19: under EveryMs, with the background sync task running, the bytes of
\* every record append returned Ok for are eventually fsynced in the
\* record's segment file, also when the segment is rotated out before the
\* task's next sync.
C19_EveryRecordEventuallySynced ==
    \A i \in 1..MaxAppends : [](Len(appended) >= i => <>RecordSynced(i))

\* C20: when load_snapshot has loaded a file written by create_snapshot
\* into an engine with the same number of shards, it returns Ok and the
\* engine's snapshot() is, shard by shard and entry by entry, the state
\* create_snapshot serialized into that file.
C20_SnapshotRoundTrip ==
    load_res # None =>
        \A f \in snapshot_dir :
            f.name = Unwrap(load_res).filename =>
                /\ Unwrap(load_res).result = "Ok"
                /\ engine_snapshot(Engine(shards, ttl_queue)) = f.state

\* A snapshot was loaded into an engine whose state had moved on since the
\* snapshot was taken, and the load brought the state back.
C20_Witness ==
    /\ load_res # None
    /\ Unwrap(load_res).result = "Ok"
    /\ Unwrap(load_res).changed
    /\ \E f \in snapshot_dir : f.name = Unwrap(load_res).filename /\ f.state = shards

\* C21: when load_snapshot is given a file that does not decode, or one
\* that decodes to a number of shards other than the engine's, it returns
\* an error and every shard of the engine is as it was before the call.
C21_LoadRejectsBadSnapshots ==
    load_res # None =>
        \A f \in snapshot_dir :
            LET state == bincode_deserialize(f.data)
            IN  /\ f.name = Unwrap(load_res).filename
                /\ (~state.ok \/ Len(state.val) # num_shards)
                => /\ Unwrap(load_res).result \in {"Serialization", "Io"}
                   /\ ~Unwrap(load_res).changed

\* C22: every file in the snapshot directory under a final snapshot name
\* holds the full serialization of the state it was created from, at every
\* point of the run and after a crash during create_snapshot.
C22_FinalNamesAreComplete ==
    \A f \in snapshot_dir :
        \E rev \in BOOLEAN : f.data = bincode_serialize(f.state, rev)

\* C23: the WAL offset a checkpoint records was read before its snapshot
\* was captured: every record appended to the current segment since the
\* capture began lies at or after the recorded offset.
C23_OffsetReadBeforeCapture ==
    (IF checkpoint = None THEN FALSE ELSE IsSome(Unwrap(checkpoint).wal_offset)) =>
        \A i \in 1..Len(appended) :
            /\ i > Unwrap(checkpoint).records
            /\ appended[i].seq = Unwrap(checkpoint).began.seq
            => appended[i].offset >= Unwrap(Unwrap(checkpoint).wal_offset)

\* The handler's log holds a record that deserialize or apply_wal_entry
\* refused.
ReplicaFailed(log) ==
    \E i \in DOMAIN log : log[i].what \in {"deserialize failed", "apply failed"}

\* C24: on a replica connection, once a record has failed to deserialize
\* or to apply, ERR has been written, the handler has closed the
\* connection, and no frame after that record is applied.
C24_NoApplyAfterError ==
    repl_conn # None =>
        LET log == Unwrap(repl_conn).log
        IN  /\ ReplicaFailed(log) => ~Unwrap(repl_conn).open
            /\ \A i \in DOMAIN log :
                 log[i].what \in {"deserialize failed", "apply failed"} =>
                     /\ i < Len(log)
                     /\ log[i + 1] = Written("ERR")
                     /\ \A j \in DOMAIN log : j > i => log[j].what # "applied"

\* C25: on a connection in sync_mode every applied record is followed in
\* the handler's log by one ACK written before anything else happens, and
\* every ACK written follows an applied record; on a connection not in
\* sync_mode no ACK is written.
C25_AckPerAppliedRecord ==
    repl_conn # None =>
        LET log == Unwrap(repl_conn).log
            sync_mode == Unwrap(repl_conn).sync_mode
        IN  /\ \A i \in DOMAIN log :
                 log[i].what = "applied" =>
                     IF sync_mode
                     THEN i < Len(log) /\ log[i + 1] = Written("ACK")
                     ELSE i = Len(log) \/ log[i + 1].what # "written"
            /\ \A i \in DOMAIN log :
                 log[i] = Written("ACK") =>
                     sync_mode /\ i > 1 /\ log[i - 1].what = "applied"

\* A connection in sync_mode has applied two records and acknowledged each
\* in turn.
C25_Witness ==
    /\ repl_conn # None
    /\ Unwrap(repl_conn).sync_mode
    /\ Len(Unwrap(repl_conn).log) >= 4
    /\ SubSeq(Unwrap(repl_conn).log, 1, 4)
         = <<Applied(1), Written("ACK"), Applied(2), Written("ACK")>>

\* C26: when a set or del of a key has returned Ok, the key's last record
\* in the WAL is that operation's: the WAL holds the key's mutations in the
\* order the shard applied them, and its last record gives the value a
\* reader sees.
C26_WalOrderIsApplyOrder ==
    (IF mut_res = None THEN FALSE ELSE Unwrap(mut_res).result = "Ok") =>
        LET m == Unwrap(mut_res)
            recs == {i \in 1..Len(appended) : appended[i].entry.key = m.key}
        IN  /\ recs # {}
            /\ LET last == appended[CHOOSE i \in recs : \A j \in recs : j <= i].entry
               IN  /\ last.op_type = m.op
                   /\ m.op = "Set" => last.value = m.value

\* C27: what a get, exists, len or snapshot of a shard returns was read
\* while no set or del was at work on the map, and it is what the method
\* gives on one of the maps the shard held between the call and the
\* return.
C27_ShardReadsAreAtomic ==
    sh_res # None =>
        /\ ~Unwrap(sh_res).torn
        /\ \E map \in Unwrap(sh_res).window :
             Unwrap(sh_res).value = shard_read(Unwrap(sh_res).op, map, Unwrap(sh_res).key)

\* A get that was called before a set of its key had the lock, and that
\* returned after the set was done, with the entry the set stored.
C27_Witness ==
    /\ sh_res # None
    /\ Unwrap(sh_res).op = "get"
    /\ Cardinality(Unwrap(sh_res).window) = 2
    /\ IsSome(Unwrap(sh_res).value)

\* C28: once WorkerManager::shutdown has been called, or the engine and
\* the WAL manager have been dropped, every background task that is
\* running eventually is not.
C28_TasksTerminateAfterShutdown ==
    \A t \in TaskNames : (signals # {}) ~> (task[t].state # "running")

\* C29: every entry in a shard that has an expiry expires after it was
\* created: expires_at > created_at.
C29_ExpiryAfterCreation ==
    \A i \in 1..num_shards :
        \A k \in DOMAIN shards[i] :
            IsSome(shards[i][k].expires_at) =>
                Unwrap(shards[i][k].expires_at) > shards[i][k].created_at

\* C30: an accept that finds max_connections connections tracked removes
\* one of them, the earliest connected under fifo and the most idle, of
\* those the one of lowest priority, under idle_then_priority, and tracks
\* the new connection; and the number of tracked connections is never
\* above max_connections.
C30_AcceptEvictsByPolicy ==
    conn_cfg # None =>
        /\ Cardinality(DOMAIN connections) <= Unwrap(conn_cfg).max_connections
        /\ accept_res # None =>
             LET r == Unwrap(accept_res)
                 policy == Unwrap(conn_cfg).evict_policy
                 before == r.before
             IN  Cardinality(DOMAIN before) >= Unwrap(conn_cfg).max_connections =>
                   /\ r.result = "Ok"
                   /\ r.evicted \in DOMAIN before
                   /\ r.evicted \notin DOMAIN connections
                   /\ r.admitted \in DOMAIN connections
                   /\ r.admitted \notin DOMAIN before
                   /\ DOMAIN connections = (DOMAIN before \ {r.evicted}) \cup {r.admitted}
                   /\ policy = "fifo" =>
                        \A c \in DOMAIN before :
                            before[r.evicted].connected_at <= before[c].connected_at
                   /\ policy = "idle_then_priority" =>
                        \A c \in DOMAIN before :
                            \/ idle_time(before[r.evicted], 0) > idle_time(before[c], 0)
                            \/ /\ idle_time(before[r.evicted], 0) = idle_time(before[c], 0)
                               /\ before[r.evicted].priority <= before[c].priority

\* C31: under a sync policy other than Never, when an append moves the
\* manager to the next segment, everything written to the segment it
\* leaves is fsynced at that moment, so that the records of a segment that
\* is no longer the active one are all fsynced.
C31_RotationSyncsOldSegment ==
    [][(/\ sync_policy # "Never"
        /\ phase = "serving"
        /\ phase' = "serving"
        /\ handle'.seq # handle.seq) =>
            wal_dir'[handle.seq].synced = Len(wal_dir[handle.seq].data)]_vars

\* C32: each append that returns Ok returns an offset strictly greater
\* than the one the append before it returned, also when the manager has
\* moved to the next segment in between.
C32_AppendOffsetsIncrease ==
    \A i \in 1..(Len(appended) - 1) : appended[i + 1].offset > appended[i].offset

\* How many of the frames the peer sent lie whole in the first n bytes of
\* the stream.
FramesWithin(ends, n) == Cardinality({i \in DOMAIN ends : ends[i] <= n})

\* The calls of apply_wal_entry in a handler's log, as frame numbers.
ApplyCalls(log) ==
    LET calls == SelectSeq(log, LAMBDA x : x.what \in {"applied", "apply failed"})
    IN  [i \in DOMAIN calls |-> calls[i].frame]

\* C33: on a connection whose stream is made of well-formed frames, however
\* the reads cut it, after each round of the handler apply_wal_entry has
\* been called once for every frame that has arrived whole, in stream
\* order, and for no other; no record fails to deserialize, and the
\* handler's buffer holds exactly the arrived bytes of the frame that is
\* not whole yet.
C33_FramesAppliedOnceInOrder ==
    (/\ repl_conn # None
     /\ \A i \in DOMAIN repl_wire.ends :
            SubBytes(repl_wire.stream,
                     IF i = 1 THEN 0 ELSE repl_wire.ends[i - 1],
                     repl_wire.ends[i]) \in WellFormedFrames) =>
        LET c == Unwrap(repl_conn)
            arrived == Len(repl_wire.stream) - Len(repl_wire.bytes)
            whole == FramesWithin(repl_wire.ends, arrived)
            taken == IF whole = 0 THEN 0 ELSE repl_wire.ends[whole]
        IN  /\ ApplyCalls(c.log) = [i \in 1..whole |-> i]
            /\ \A i \in DOMAIN c.log : c.log[i].what # "deserialize failed"
            /\ c.frames = whole
            /\ c.pos = 0
            /\ c.buffer = SubBytes(repl_wire.stream, taken, arrived)

\* Two well-formed frames were sent and read to the end, and
\* apply_wal_entry was called for both, the second call returning Ok.
C33_Witness ==
    /\ repl_conn # None
    /\ Len(repl_wire.ends) = 2
    /\ repl_wire.bytes = <<>>
    /\ \A i \in DOMAIN repl_wire.ends :
            SubBytes(repl_wire.stream,
                     IF i = 1 THEN 0 ELSE repl_wire.ends[i - 1],
                     repl_wire.ends[i]) \in WellFormedFrames
    /\ ApplyCalls(Unwrap(repl_conn).log) = <<1, 2>>
    /\ \E i \in DOMAIN Unwrap(repl_conn).log : Unwrap(repl_conn).log[i] = Applied(2)

\* A task in a call can take its next step: it is inside a section, or the
\* lock of its next section can be taken.
CanStep(th) ==
    /\ lk_task[th].op # "idle"
    /\ lk_task[th].inside \/ lockable(Head(lk_task[th].todo), lk_shard, lk_queue)

\* C34: no task holds more than one guard of the storage layer at a time,
\* shard locks and the TTL heap's mutex alike, and whenever some task is in
\* an engine call some task in a call can take its next step.
C34_NoNestedStorageLocks ==
    /\ \A th \in LockTasks : Cardinality(lk_task[th].holding) <= 1
    /\ (\E th \in LockTasks : lk_task[th].op # "idle") => \E th \in LockTasks : CanStep(th)

\* A task is inside the second iteration of load_from_snapshot, holding
\* the write lock of shard 2, while another task waits for that lock.
C34_Witness ==
    \E th \in LockTasks, other \in LockTasks :
        /\ lk_task[th].op = "load_from_snapshot"
        /\ lk_task[th].inside
        /\ lk_task[th].holding = {Section(2, "write")}
        /\ lk_task[other].op # "idle"
        /\ ~lk_task[other].inside
        /\ Head(lk_task[other].todo).lock = 2

\* The shard holds an entry of key whose expires_at the clock has passed.
HeldPastExpiry(key) ==
    /\ Present(key)
    /\ PastExpiry(shards[get_shard(key)][key], now)

\* C35: with the sweep task running, an entry that is still in its shard
\* after its expires_at has passed is eventually removed from the shard
\* (or replaced by an entry that has not expired), whichever of set,
\* apply_wal_entry and load_from_snapshot installed it.
C35_ExpiredEntriesAreSwept ==
    \A key \in Keys : HeldPastExpiry(key) ~> ~HeldPastExpiry(key)

\* The serialized records, in the order append returned them, that went to
\* segment seq.
RECURSIVE RecordsOf(_, _)
RecordsOf(log, seq) ==
    IF log = <<>> THEN <<>>
    ELSE (IF Head(log).seq = seq THEN serialized_of(Head(log).entry) ELSE <<>>)
         \o RecordsOf(Tail(log), seq)

\* What the caller inside append has written of its record so far.
InFlight ==
    IF \E th \in AppendThreads : ap_thread[th].pc \in {"write", "advance", "return"}
    THEN LET th == CHOOSE x \in AppendThreads :
                       ap_thread[x].pc \in {"write", "advance", "return"}
         IN  SubBytes(serialized_of(ap_thread[th].entry), 0, ap_thread[th].written)
    ELSE <<>>

HomeShard(key) == ModWord(hash32(key), num_shards) + 1

\* C37: after any sequence of set, del, apply_wal_entry and
\* load_from_snapshot every key stored in shard i hashes to i, so no key is
\* held by two shards.
C37_KeysStayInTheirShard ==
    /\ \A i \in 1..num_shards : \A key \in DOMAIN shards[i] : HomeShard(key) = i
    /\ \A i \in 1..num_shards, j \in 1..num_shards :
          i # j => DOMAIN shards[i] \cap DOMAIN shards[j] = {}

\* load_from_snapshot has just replaced the maps, and the second shard
\* holds the key the replica applied before the snapshot was taken.
C37_Witness ==
    /\ load_res # None
    /\ IF load_res = None THEN FALSE
       ELSE Unwrap(load_res).result = "Ok" /\ Unwrap(load_res).changed
    /\ KeyB \in DOMAIN shards[2]
    /\ KeyA \notin DOMAIN shards[1]

\* The shard holds an entry for the key that get is about and that entry
\* has not expired.
LiveUnderGet ==
    IF get_req = None THEN FALSE
    ELSE LET key == Unwrap(get_req).key
         IN  Present(key) /\ ~is_expired(shards[get_shard(key)][key], now)

\* C38: when a get returns, an entry of its key that has not expired is
\* still in the shard, whatever a concurrent set did between the get's read
\* and its removal.
C38_GetKeepsLiveEntry ==
    [][(LiveUnderGet /\ get_req' = None) =>
          LET key == Unwrap(get_req).key
          IN  /\ key \in DOMAIN shards'[get_shard(key)]
              /\ shards'[get_shard(key)][key] = shards[get_shard(key)][key]]_vars

\* C39: an append that returns an error leaves the manager's offset as it
\* was before the call, and a replay of the log afterwards does not hand
\* the record of that call to the callback.
C39_FailedAppendLeavesNoTrace ==
    [][(append_err' # None /\ append_err' # append_err) =>
          /\ handle'.offset = handle.offset
          /\ LET r == replay_from(wal_dir', handle', 0, overflow_checks)
                 end == IF handle'.seq = handle.seq
                        THEN Len(wal_dir[handle.seq].data) ELSE 0
             IN  \A i \in 1..Len(r.calls) : r.calls[i].offset < end]_vars

\* C40: the entry apply_wal_entry creates from a Set record with a ttl of
\* T nanoseconds expires T nanoseconds after it was created, and the entry
\* created from a record without a ttl has no expiry.
C40_ReplicaTtlIsNanoseconds ==
    IF applied = None THEN TRUE
    ELSE LET a == Unwrap(applied)
         IN  (a.entry.op_type = "Set" /\ a.result = "Ok") =>
                /\ IsSome(a.stored)
                /\ IF a.stored = None THEN FALSE
                   ELSE LET e == Unwrap(a.stored)
                        IN  IF a.entry.ttl = None THEN e.expires_at = None
                            ELSE e.expires_at
                                    = Some(e.created_at + AsNat(Unwrap(a.entry.ttl)))

=============================================================================
